---------------------------- MODULE Spec2Model ----------------------------
(***************************************************************************)
(* A model of the account pool of warp2api.                                *)
(*                                                                         *)
(*   - the `accounts` table and the operations that mutate it:             *)
(*     QuotaTracker (quota_tracker.py), AccountReleaser                    *)
(*     (release_all_accounts.py), the REST handlers of main.py, the        *)
(*     insertion of a freshly registered account (batch_register.py);      *)
(*   - the pool manager and the database layer (account_pool/pool_manager, *)
(*     account_pool/database), which main.py calls but whose code is not   *)
(*     part of the sources: they are modelled from the specification, and  *)
(*     every such definition says so;                                      *)
(*   - the per-process client PoolAuthManager (pool_auth.py): its cached   *)
(*     session, the threading.Lock that guards it, and its coroutines cut  *)
(*     at their await points.                                              *)
(***************************************************************************)
EXTENDS Integers, Sequences, FiniteSets, TLC

(***************************************************************************)
(* Bounds of the model.                                                    *)
(***************************************************************************)
MaxAccounts == 2        \* identities (emails) that may ever be registered
MaxSessions == 2        \* session ids that may ever be generated or sent
MaxPerRequest == 2      \* largest configured ACCOUNTS_PER_REQUEST, largest requested count
MaxTime == 31           \* days the pool service's clock may advance
MaxTasks == 2           \* coroutines of one client process
MaxClock == 1801        \* seconds the client's clock may advance
MaxCalls == 4           \* calls made to the client's token manager
MaxBatch == 3           \* largest count of a replenishment pass
MaxWorkers == 2         \* largest size of a thread pool smaller than the default

(***************************************************************************)
(* Program constants.                                                      *)
(***************************************************************************)
quota_reset_days == 30      \* QuotaTracker.__init__
SESSION_TTL == 1800         \* PoolAuthManager._is_session_valid

NULL == -1                  \* SQL NULL / Python None for ids, indexes and times

Emails == 1..MaxAccounts
SessionIds == 1..MaxSessions
Counts == 1..MaxPerRequest
Tasks == 1..MaxTasks

\* The pool clock advances by half a cool-down or one day more, so that the
\* age of an exhaustion takes values below, equal to and above quota_reset_days.
TickDays == {quota_reset_days \div 2, quota_reset_days \div 2 + 1}
\* The client clock advances by the session lifetime or one second more, so
\* that the age of a session takes values equal to and above SESSION_TTL.
TickSeconds == {SESSION_TTL, SESSION_TTL + 1}

VARIABLES
    accounts,            \* the accounts table: email -> row ("absent": no such row)
    now,                 \* datetime.now() of the pool service, in days
    accounts_per_request,\* config.ACCOUNTS_PER_REQUEST of the pool service
    last,                \* the last request served by the pool service and its response
    callers,             \* concurrent callers (of the pool's endpoints, of the token derivation)
    current_session,     \* pool_auth._current_session (NoSession: None)
    manager,             \* the fields of the PoolAuthManager singleton
    lock_holder,         \* the task inside `with _session_lock` (NULL: free)
    blocked,             \* the task in which the event-loop thread is stuck in Lock.acquire
    task,                \* per coroutine: operation, position, locals, HTTP exchange
    clock,               \* time.time() of the client process, in seconds
    token_expired,       \* is_token_expired(_current_session["access_token"])
    calls,               \* how many calls the client's token manager has received
    attempts,            \* the futures of a replenishment pass: index -> attempt
    pass                 \* register_accounts_concurrent: position, counters, results

poolVars == <<accounts, now, accounts_per_request, last>>
brokerVars == <<current_session, manager, lock_holder, blocked, task, clock, token_expired,
                calls>>
replenishVars == <<attempts, pass>>
vars == <<accounts, now, accounts_per_request, last, callers,
          current_session, manager, lock_holder, blocked, task, clock, token_expired,
          calls, attempts, pass>>

(***************************************************************************)
(* Helpers.                                                                *)
(***************************************************************************)
RECURSIVE SetToSeq(_)
\* The elements of a finite set of integers in ascending order.
SetToSeq(S) ==
    IF S = {} THEN <<>>
    ELSE LET m == CHOOSE x \in S : \A y \in S : x <= y
         IN <<m>> \o SetToSeq(S \ {m})

Range(s) == {s[i] : i \in 1..Len(s)}

(***************************************************************************)
(* The accounts table.                                                     *)
(***************************************************************************)
AbsentRow == [status |-> "absent", session_id |-> NULL, quota_exhausted_at |-> NULL]
AvailableRow == [status |-> "available", session_id |-> NULL, quota_exhausted_at |-> NULL]

Existing(accts) == {e \in Emails : accts[e].status # "absent"}
WithStatus(accts, st) == {e \in Emails : accts[e].status = st}
BoundTo(accts, sid) == {e \in Emails : accts[e].status # "absent" /\ accts[e].session_id = sid}


MaxRetries == 6    \* the largest max_retries a call is made with

(***************************************************************************)
(* QuotaTracker (quota_tracker.py).                                        *)
(***************************************************************************)
\* Variant: the UPDATE without `session_id = NULL`.
mark_account_quota_exhausted_keeps_session(accts, email, t) ==
    IF accts[email].status = "absent"
    THEN [ok |-> FALSE, accounts |-> accts]
    ELSE [ok |-> TRUE,
          accounts |-> [accts EXCEPT ![email] =
                           [status |-> "quota_exhausted",
                            session_id |-> @.session_id,
                            quota_exhausted_at |-> t]]]

\* Variant: the UPDATE with `AND status = 'in_use'` added to its WHERE clause.
mark_account_quota_exhausted_only_in_use(accts, email, t) ==
    IF accts[email].status # "in_use"
    THEN [ok |-> FALSE, accounts |-> accts]
    ELSE [ok |-> TRUE,
          accounts |-> [accts EXCEPT ![email] =
                           [status |-> "quota_exhausted",
                            session_id |-> NULL,
                            quota_exhausted_at |-> t]]]

\* Variant: the result taken without looking at cursor.rowcount.
mark_account_quota_exhausted_ignores_rowcount(accts, email, t) ==
    IF accts[email].status = "absent"
    THEN [ok |-> TRUE, accounts |-> accts]
    ELSE [ok |-> TRUE,
          accounts |-> [accts EXCEPT ![email] =
                           [status |-> "quota_exhausted",
                            session_id |-> NULL,
                            quota_exhausted_at |-> t]]]

\* UPDATE accounts SET status = 'quota_exhausted', quota_exhausted_at = now,
\* session_id = NULL WHERE email = ?; returns affected > 0.
mark_account_quota_exhausted(accts, email, t) ==
    IF accts[email].status = "absent"
    THEN [ok |-> FALSE, accounts |-> accts]
    ELSE [ok |-> TRUE,
          accounts |-> [accts EXCEPT ![email] =
                           [status |-> "quota_exhausted",
                            session_id |-> NULL,
                            quota_exhausted_at |-> t]]]

\* The rows selected by WHERE status = 'quota_exhausted' AND quota_exhausted_at < ?
\* (a comparison with NULL selects nothing).
ExpiredQuota(accts, reset_threshold) ==
    {e \in Emails : /\ accts[e].status = "quota_exhausted"
                    /\ accts[e].quota_exhausted_at # NULL
                    /\ accts[e].quota_exhausted_at < reset_threshold}

\* Variant: the UPDATE without `quota_exhausted_at = NULL`.
reset_expired_quotas_keeps_timestamp(accts, t) ==
    LET reset_threshold == t - quota_reset_days
        accounts_to_reset == ExpiredQuota(accts, reset_threshold)
    IN [reset_count |-> Cardinality(accounts_to_reset),
        accounts |-> [e \in Emails |->
                         IF e \in accounts_to_reset
                         THEN [accts[e] EXCEPT !.status = "available"]
                         ELSE accts[e]]]

\* Variant: the threshold taken one day late (rows exhausted exactly
\* quota_reset_days ago are selected too, as with `<=`).
reset_expired_quotas_inclusive(accts, t) ==
    LET reset_threshold == t - quota_reset_days + 1
        accounts_to_reset == ExpiredQuota(accts, reset_threshold)
    IN [reset_count |-> Cardinality(accounts_to_reset),
        accounts |-> [e \in Emails |->
                         IF e \in accounts_to_reset
                         THEN [accts[e] EXCEPT !.status = "available",
                                               !.quota_exhausted_at = NULL]
                         ELSE accts[e]]]

\* Variant: the UPDATE without the cool-down condition (every exhausted row
\* is reset).
reset_expired_quotas_every_exhausted(accts, t) ==
    LET accounts_to_reset == WithStatus(accts, "quota_exhausted")
    IN [reset_count |-> Cardinality(accounts_to_reset),
        accounts |-> [e \in Emails |->
                         IF e \in accounts_to_reset
                         THEN [accts[e] EXCEPT !.status = "available",
                                               !.quota_exhausted_at = NULL]
                         ELSE accts[e]]]

\* UPDATE accounts SET status = 'available', quota_exhausted_at = NULL WHERE ...;
\* returns the number of rows reset.
reset_expired_quotas(accts, t) ==
    LET reset_threshold == t - quota_reset_days
        accounts_to_reset == ExpiredQuota(accts, reset_threshold)
    IN [reset_count |-> Cardinality(accounts_to_reset),
        accounts |-> [e \in Emails |->
                         IF e \in accounts_to_reset
                         THEN [accts[e] EXCEPT !.status = "available",
                                               !.quota_exhausted_at = NULL]
                         ELSE accts[e]]]

\* reset_expired_quotas with its try/except: an exception of sqlite3 (connect,
\* execute, commit) is logged, nothing is committed and 0 is returned.
reset_expired_quotas_guarded(store_available, accts, t) ==
    IF store_available
    THEN reset_expired_quotas(accts, t)
    ELSE [reset_count |-> 0, accounts |-> accts]

(***************************************************************************)
(* AccountReleaser (release_all_accounts.py).                              *)
(***************************************************************************)
\* Variant: the UPDATE without its WHERE clause (every row is reset).
release_all_accounts_without_where(accts) ==
    [released_count |-> Cardinality(Existing(accts)),
     accounts |-> [e \in Emails |->
                      IF e \in Existing(accts)
                      THEN [accts[e] EXCEPT !.status = "available",
                                            !.session_id = NULL]
                      ELSE accts[e]]]

\* UPDATE accounts SET status = 'available', session_id = NULL WHERE status = 'in_use';
\* returns cursor.rowcount.
release_all_accounts(accts) ==
    LET in_use_accounts == WithStatus(accts, "in_use")
    IN [released_count |-> Cardinality(in_use_accounts),
        accounts |-> [e \in Emails |->
                         IF e \in in_use_accounts
                         THEN [accts[e] EXCEPT !.status = "available",
                                               !.session_id = NULL]
                         ELSE accts[e]]]

(***************************************************************************)
(* The database layer and the pool manager, modelled from the              *)
(* specification (sections 3, 4.1 and 4.4).                                *)
(***************************************************************************)
\* CredentialStore.add: fails with DuplicateKey if the identity exists; the row
\* is stored as given.
add_account(accts, email, row) ==
    IF accts[email].status # "absent"
    THEN [ok |-> FALSE, accounts |-> accts]
    ELSE [ok |-> TRUE, accounts |-> [accts EXCEPT ![email] = row]]

\* A freshly generated session id: one that no row is bound to.
FreshSessionIds(accts) == {s \in SessionIds : BoundTo(accts, s) = {}}

\* The atomic claim: `count` rows that are available become in_use, bound to
\* `sid`; all or nothing. The set of possible outcomes (any `count` available
\* rows may be the ones selected); the rows are returned in key order.
ClaimOutcomes(accts, sid, count) ==
    LET available == WithStatus(accts, "available")
    IN IF Cardinality(available) < count
       THEN {[accounts |-> <<>>, session_id |-> NULL, store |-> accts]}
       ELSE {[accounts |-> SetToSeq(S),
              session_id |-> sid,
              store |-> [e \in Emails |->
                            IF e \in S
                            THEN [accts[e] EXCEPT !.status = "in_use", !.session_id = sid]
                            ELSE accts[e]]]
             : S \in {T \in SUBSET available : Cardinality(T) = count}}

\* PoolManager.allocate(sessionId?): a session id still bound to a non-empty set
\* of credentials gets that set back; otherwise a session id is generated if
\* absent and `count` available credentials are claimed. main.py passes no count:
\* the manager allocates its configured number of accounts per request.
allocate_accounts_for_request(accts, request_id, count) ==
    IF request_id # NULL /\ BoundTo(accts, request_id) # {}
    THEN {[accounts |-> SetToSeq(BoundTo(accts, request_id)),
           session_id |-> request_id,
           store |-> accts]}
    ELSE IF request_id # NULL
         THEN ClaimOutcomes(accts, request_id, count)
         ELSE IF Cardinality(WithStatus(accts, "available")) < count
              THEN ClaimOutcomes(accts, NULL, count)
              ELSE UNION {ClaimOutcomes(accts, sid, count) : sid \in FreshSessionIds(accts)}

\* Variant: a release that makes the rows available and leaves them bound.
release_accounts_for_request_keeps_binding(accts, session_id) ==
    LET bound == BoundTo(accts, session_id)
    IN [ok |-> bound # {},
        accounts |-> [e \in Emails |->
                         IF e \in bound
                         THEN [accts[e] EXCEPT !.status = "available"]
                         ELSE accts[e]]]

\* PoolManager.release(sessionId): every credential bound to the session goes
\* back to available with the binding cleared; an unknown session mutates nothing
\* and is reported as a failure (InvalidSession).
release_accounts_for_request(accts, session_id) ==
    LET bound == BoundTo(accts, session_id)
    IN [ok |-> bound # {},
        accounts |-> [e \in Emails |->
                         IF e \in bound
                         THEN [accts[e] EXCEPT !.status = "available", !.session_id = NULL]
                         ELSE accts[e]]]

\* PoolStats: counts per status, computed on demand.
pool_stats(accts) ==
    [available |-> Cardinality(WithStatus(accts, "available")),
     in_use |-> Cardinality(WithStatus(accts, "in_use")),
     quota_exhausted |-> Cardinality(WithStatus(accts, "quota_exhausted")),
     total |-> Cardinality(Existing(accts))]

(***************************************************************************)
(* The REST handlers of the pool service (main.py).                        *)
(***************************************************************************)
Response(success, session_id, accts, n) ==
    [success |-> success, session_id |-> session_id, accounts |-> accts, n |-> n]

\* Variant: the handler without its `if not accounts` branch, reporting every
\* result of the manager as a success.
allocate_accounts_without_failure_branch(accts, request_session_id, request_count, per_request) ==
    {[response |-> Response(TRUE, request_session_id, o.accounts, Len(o.accounts)),
      accounts |-> o.store]
     : o \in allocate_accounts_for_request(accts, request_session_id, per_request)}

\* POST /api/accounts/allocate: request.count is validated (1..10) and not used;
\* an empty list from the manager is the failure response, whose session id is
\* the request's or ""; otherwise the response carries every account returned
\* and the session id of the first one.
allocate_accounts(accts, request_session_id, request_count, per_request) ==
    {[response |-> IF o.accounts = <<>>
                   THEN Response(FALSE, request_session_id, <<>>, 0)
                   ELSE Response(TRUE, o.store[o.accounts[1]].session_id,
                                 o.accounts, Len(o.accounts)),
      accounts |-> o.store]
     : o \in allocate_accounts_for_request(accts, request_session_id, per_request)}

\* Variant: the handler refusing an account that is not leased at the moment.
mark_quota_exhausted_skips_unleased(accts, email, t) ==
    LET r == mark_account_quota_exhausted(accts, email, t)
    IN IF accts[email].status = "in_use"
       THEN [response |-> Response(r.ok, NULL, <<>>, 0), accounts |-> r.accounts]
       ELSE [response |-> Response(FALSE, NULL, <<>>, 0), accounts |-> accts]

\* POST /api/accounts/mark_quota_exhausted: success is the tracker's result.
mark_quota_exhausted(accts, email, t) ==
    LET r == mark_account_quota_exhausted(accts, email, t)
    IN [response |-> Response(r.ok, NULL, <<>>, 0), accounts |-> r.accounts]

\* Variant: the handler reporting every release as a success.
release_accounts_always_succeeds(accts, session_id) ==
    LET r == release_accounts_for_request(accts, session_id)
    IN [response |-> Response(TRUE, session_id, <<>>, 0), accounts |-> r.accounts]

\* POST /api/accounts/release: success is the manager's result.
release_accounts(accts, session_id) ==
    LET r == release_accounts_for_request(accts, session_id)
    IN [response |-> Response(r.ok, session_id, <<>>, 0), accounts |-> r.accounts]


(***************************************************************************)
(* The client process (pool_auth.py) before any call: module load and      *)
(* PoolAuthManager().                                                      *)
(***************************************************************************)
ACCOUNTS_PER_REQUEST == 1   \* the count the client sends with every allocate request

\* A bearer token: the account it was derived from and whether it is the
\* access token of the refresh exchange or the account's own id_token.
Token(email, kind) == [email |-> email, kind |-> kind]
NoToken == Token(NULL, "none")

\* _current_session = None
NoSession == [present |-> FALSE, session_id |-> NULL, accounts |-> <<>>,
              account |-> NULL, account_index |-> NULL, access_token |-> NoToken,
              created_at |-> NULL]

\* PoolAuthManager.__init__
NewManager == [current_session_id |-> NULL, current_account |-> NULL,
               accounts |-> <<>>, account_index |-> 0, access_token |-> NoToken]

NoResult == [status |-> "none", token |-> NoToken]

\* A coroutine that has not been called.
IdleTask == [op |-> "idle", pc |-> "idle", http |-> "none",
             response |-> Response(FALSE, NULL, <<>>, 0),
             email |-> NULL, session_id |-> NULL, next_index |-> NULL,
             result |-> NoResult]

\* No replenishment pass has been started (BatchRegister just constructed).
max_workers == 20   \* BatchRegister(max_workers=20): the default size of the thread pool
NoPass == [pc |-> "idle", max_workers |-> max_workers, count |-> 0, submitted |-> 0,
           results |-> <<>>, success_count |-> 0, failed_count |-> 0]
ReplenishIdle == attempts = <<>> /\ pass = NoPass

BrokerInit ==
    /\ current_session = NoSession
    /\ manager = NewManager
    /\ lock_holder = NULL
    /\ blocked = NULL
    /\ task = [t \in Tasks |-> IdleTask]
    /\ clock = 0
    /\ token_expired = FALSE
    /\ calls = 0

(***************************************************************************)
(* The pool service: one action per request, tool run or clock advance.    *)
(***************************************************************************)
Last(op, email, session_id, count, response) ==
    [req |-> [op |-> op, email |-> email, session_id |-> session_id, count |-> count],
     resp |-> response]

PoolInit ==
    /\ accounts = [e \in Emails |-> AbsentRow]
    /\ now = 0
    /\ accounts_per_request \in Counts
    /\ last = Last("none", NULL, NULL, NULL, Response(FALSE, NULL, <<>>, 0))

\* What a request to the pool service leaves alone: the clients' state.
PoolFrame == UNCHANGED <<callers, current_session, manager, lock_holder, blocked,
                         task, clock, token_expired, calls, attempts, pass>>

\* BatchRegister._register_single_account after a successful registration and
\* activation: the account is stored with status 'available'; an exception of
\* add_account is caught and nothing is stored.
RegisterAccount(e) ==
    LET r == add_account(accounts, e, AvailableRow)
    IN /\ accounts' = r.accounts
       /\ last' = Last("add", e, NULL, NULL, Response(r.ok, NULL, <<>>, 0))
       /\ UNCHANGED <<now, accounts_per_request>>
       /\ PoolFrame

\* BatchRegister.register_single_account_sync after a successful registration:
\* the account is stored with status 'available' without the activation
\* step; an exception of add_account is caught and nothing is stored.
RegisterSingleAccountSync(e) ==
    LET r == add_account(accounts, e, AvailableRow)
    IN /\ accounts' = r.accounts
       /\ last' = Last("add_sync", e, NULL, NULL, Response(r.ok, NULL, <<>>, 0))
       /\ UNCHANGED <<now, accounts_per_request>>
       /\ PoolFrame

Allocate(sid, count) ==
    \E o \in allocate_accounts(accounts, sid, count, accounts_per_request) :
        /\ accounts' = o.accounts
        /\ last' = Last("allocate", NULL, sid, count, o.response)
        /\ UNCHANGED <<now, accounts_per_request>>
        /\ PoolFrame

Release(sid) ==
    LET o == release_accounts(accounts, sid)
    IN /\ accounts' = o.accounts
       /\ last' = Last("release", NULL, sid, NULL, o.response)
       /\ UNCHANGED <<now, accounts_per_request>>
       /\ PoolFrame

MarkQuotaExhausted(e) ==
    LET o == mark_quota_exhausted(accounts, e, now)
    IN /\ accounts' = o.accounts
       /\ last' = Last("mark", e, NULL, NULL, o.response)
       /\ UNCHANGED <<now, accounts_per_request>>
       /\ PoolFrame

\* The maintenance loop's reclaim step.
ResetExpiredQuotas ==
    LET r == reset_expired_quotas(accounts, now)
    IN /\ accounts' = r.accounts
       /\ last' = Last("reset", NULL, NULL, NULL, Response(TRUE, NULL, <<>>, r.reset_count))
       /\ UNCHANGED <<now, accounts_per_request>>
       /\ PoolFrame

\* The reclaim step run while the database cannot be opened or written.
ResetExpiredQuotasFails ==
    LET r == reset_expired_quotas_guarded(FALSE, accounts, now)
    IN /\ accounts' = r.accounts
       /\ last' = Last("reset_failed", NULL, NULL, NULL,
                       Response(FALSE, NULL, <<>>, r.reset_count))
       /\ UNCHANGED <<now, accounts_per_request>>
       /\ PoolFrame

\* A run of the release-all tool.
ReleaseAll ==
    LET r == release_all_accounts(accounts)
    IN /\ accounts' = r.accounts
       /\ last' = Last("release_all", NULL, NULL, NULL,
                       Response(TRUE, NULL, <<>>, r.released_count))
       /\ UNCHANGED <<now, accounts_per_request>>
       /\ PoolFrame

Tick(d) ==
    /\ now + d <= MaxTime
    /\ now' = now + d
    /\ last' = Last("tick", NULL, NULL, NULL, Response(TRUE, NULL, <<>>, 0))
    /\ UNCHANGED <<accounts, accounts_per_request>>
    /\ PoolFrame

Next ==
    \/ \E e \in Emails : RegisterAccount(e)
    \/ \E e \in Emails : RegisterSingleAccountSync(e)
    \/ \E sid \in SessionIds \cup {NULL}, count \in Counts : Allocate(sid, count)
    \/ \E sid \in SessionIds : Release(sid)
    \/ \E e \in Emails : MarkQuotaExhausted(e)
    \/ ResetExpiredQuotas
    \/ ResetExpiredQuotasFails
    \/ ReleaseAll
    \/ \E d \in TickDays : Tick(d)

Init ==
    /\ PoolInit
    /\ callers = <<>>
    /\ BrokerInit
    /\ ReplenishIdle

Spec == Init /\ [][Next]_vars


(***************************************************************************)
(* Properties of the accounts table under Spec.                            *)
(***************************************************************************)
\* C4: in every reachable state of the table, a credential has status in_use
\* if and only if its session_id is not null (so available and quota_exhausted
\* credentials have no session), whatever sequence of add, allocate, release,
\* markQuotaExhausted, reclaim and release-all produced the state.
InUseIffSession ==
    \A e \in Existing(accounts) :
        (accounts[e].status = "in_use") <=> (accounts[e].session_id # NULL)

\* A credential is leased while another one has just been marked exhausted.
InUseIffSessionWitness ==
    /\ last.req.op = "mark"
    /\ last.resp.success
    /\ \E e \in Emails : accounts[e].status = "in_use" /\ accounts[e].session_id # NULL

\* C5: in every reachable state of the table, quota_exhausted_at is not null
\* if and only if the status is quota_exhausted.
ExhaustedIffTimestamp ==
    \A e \in Existing(accounts) :
        (accounts[e].quota_exhausted_at # NULL) <=> (accounts[e].status = "quota_exhausted")

\* A reclaim run has just reset a credential while another one stays exhausted.
ExhaustedIffTimestampWitness ==
    /\ last.req.op = "reset"
    /\ last.resp.n >= 1
    /\ \E e \in Emails : accounts[e].status = "quota_exhausted"
    /\ \E e \in Emails : accounts[e].status = "available"

\* C8: markQuotaExhausted(key) on an existing credential, whatever its status,
\* leaves it quota_exhausted with no session and quota_exhausted_at = the time
\* of the call, reports success, and changes no other credential.
MarkExhaustsOnlyThatCredential ==
    [][(last'.req.op = "mark" /\ accounts[last'.req.email].status # "absent") =>
          /\ accounts'[last'.req.email] =
                 [status |-> "quota_exhausted", session_id |-> NULL,
                  quota_exhausted_at |-> now]
          /\ \A o \in Emails \ {last'.req.email} : accounts'[o] = accounts[o]
          /\ last'.resp.success]_vars

\* A credential has just been marked at the current time while the other one
\* is leased.
MarkExhaustsWitness ==
    /\ last.req.op = "mark"
    /\ accounts[last.req.email].status = "quota_exhausted"
    /\ accounts[last.req.email].quota_exhausted_at = now
    /\ now > 0
    /\ \E o \in Emails \ {last.req.email} : accounts[o].status = "in_use"

\* C9 as stated: a reclaim run at a time before T + cool-down leaves a credential
\* exhausted at T alone, and a run at any time >= T + cool-down (the boundary
\* included) makes it available with quota_exhausted_at cleared.
ReclaimAtOrAfterCooldown ==
    [][last'.req.op = "reset" =>
          \A e \in WithStatus(accounts, "quota_exhausted") :
              IF now < accounts[e].quota_exhausted_at + quota_reset_days
              THEN accounts'[e] = accounts[e]
              ELSE /\ accounts'[e].status = "available"
                   /\ accounts'[e].quota_exhausted_at = NULL]_vars

\* C9 amended: a reclaim run at a time <= T + cool-down leaves the credential
\* alone, and every run at a time > T + cool-down makes it available with
\* quota_exhausted_at cleared.
ReclaimAfterCooldown ==
    [][last'.req.op = "reset" =>
          \A e \in WithStatus(accounts, "quota_exhausted") :
              IF now <= accounts[e].quota_exhausted_at + quota_reset_days
              THEN accounts'[e] = accounts[e]
              ELSE /\ accounts'[e].status = "available"
                   /\ accounts'[e].quota_exhausted_at = NULL]_vars

\* A reclaim run has reset one credential and left alone one that is still
\* inside its cool-down.
ReclaimAfterCooldownWitness ==
    /\ last.req.op = "reset"
    /\ last.resp.n = 1
    /\ \E e \in Emails : /\ accounts[e].status = "quota_exhausted"
                         /\ now - accounts[e].quota_exhausted_at < quota_reset_days

\* C10: every change of a row is the creation of an available credential or
\* one of the four transitions (available -> in_use by allocate, in_use ->
\* available by release, {available, in_use} -> quota_exhausted by
\* markQuotaExhausted, quota_exhausted -> available by reclaim after the
\* cool-down); from any other source state the row is left unchanged.
OnlyPermittedTransitions ==
    [][\A e \in Emails :
          accounts'[e] # accounts[e] =>
              \/ /\ accounts[e].status = "absent"
                 /\ accounts'[e] = AvailableRow
                 /\ last'.req.op = "add"
              \/ /\ accounts[e].status = "available"
                 /\ accounts'[e].status = "in_use"
                 /\ last'.req.op = "allocate"
              \/ /\ accounts[e].status = "in_use"
                 /\ accounts'[e].status = "available"
                 /\ last'.req.op \in {"release", "release_all"}
              \/ /\ accounts[e].status \in {"available", "in_use"}
                 /\ accounts'[e].status = "quota_exhausted"
                 /\ last'.req.op = "mark"
              \/ /\ accounts[e].status = "quota_exhausted"
                 /\ accounts'[e].status = "available"
                 /\ last'.req.op = "reset"
                 /\ now >= accounts[e].quota_exhausted_at + quota_reset_days]_vars

\* C6: allocate is all-or-nothing: a call either returns exactly `count`
\* credentials, all in_use and bound to the session id of the response, or the
\* insufficient result (success = false, empty list) with every row unchanged.
AllocateAllOrNothing ==
    [][last'.req.op = "allocate" =>
          \/ /\ last'.resp.success
             /\ Len(last'.resp.accounts) = last'.req.count
             /\ \A e \in Range(last'.resp.accounts) :
                    /\ accounts'[e].status = "in_use"
                    /\ accounts'[e].session_id = last'.resp.session_id
          \/ /\ ~last'.resp.success
             /\ last'.resp.accounts = <<>>
             /\ accounts' = accounts]_vars

\* C7: a successful allocate request for count = k returns k distinct
\* credentials sharing the session id of the response, and the status counts
\* move by k: available decreases by k, in_use increases by k.
AllocateReturnsRequestedCount ==
    [][(last'.req.op = "allocate" /\ last'.resp.success) =>
          /\ Cardinality(Range(last'.resp.accounts)) = last'.req.count
          /\ Len(last'.resp.accounts) = last'.req.count
          /\ \A e \in Range(last'.resp.accounts) :
                 accounts'[e].session_id = last'.resp.session_id
          /\ pool_stats(accounts').available = pool_stats(accounts).available - last'.req.count
          /\ pool_stats(accounts').in_use = pool_stats(accounts).in_use + last'.req.count]_vars


(***************************************************************************)
(* N + 1 concurrent allocate(count = 1) calls against N available          *)
(* credentials: each caller sends its request (no session id), the service *)
(* serves the requests in any order, one handler at a time.                *)
(***************************************************************************)
IdleCaller == [pc |-> "idle", response |-> Response(FALSE, NULL, <<>>, 0)]

\* The table before the calls: any mix of available, exhausted and missing
\* rows with at least one available row (and a session id left for each).
ConcurrentAllocateInit ==
    /\ accounts \in [Emails -> {AvailableRow, AbsentRow,
                                [status |-> "quota_exhausted", session_id |-> NULL,
                                 quota_exhausted_at |-> 0]}]
    /\ WithStatus(accounts, "available") # {}
    /\ Cardinality(WithStatus(accounts, "available")) <= MaxSessions
    /\ now = 0
    /\ accounts_per_request = 1
    /\ last = Last("none", NULL, NULL, NULL, Response(FALSE, NULL, <<>>, 0))
    /\ callers = [c \in 1..(Cardinality(WithStatus(accounts, "available")) + 1) |-> IdleCaller]
    /\ BrokerInit
    /\ ReplenishIdle

\* A client posts {"count": 1} to /api/accounts/allocate.
CallAllocate(c) ==
    /\ callers[c].pc = "idle"
    /\ callers' = [callers EXCEPT ![c].pc = "pending"]
    /\ UNCHANGED <<accounts, now, accounts_per_request, last>>
    /\ UNCHANGED brokerVars
    /\ UNCHANGED replenishVars

\* The service handles the request of caller c and answers it.
ServeAllocate(c) ==
    /\ callers[c].pc = "pending"
    /\ \E o \in allocate_accounts(accounts, NULL, 1, accounts_per_request) :
           /\ accounts' = o.accounts
           /\ callers' = [callers EXCEPT ![c] = [pc |-> "done", response |-> o.response]]
    /\ UNCHANGED <<now, accounts_per_request, last>>
    /\ UNCHANGED brokerVars
    /\ UNCHANGED replenishVars

ConcurrentAllocateNext ==
    \/ \E c \in DOMAIN callers : CallAllocate(c)
    \/ \E c \in DOMAIN callers : ServeAllocate(c)

SpecConcurrentAllocate == ConcurrentAllocateInit /\ [][ConcurrentAllocateNext]_vars

Succeeded == {c \in DOMAIN callers : callers[c].pc = "done" /\ callers[c].response.success}
Failed == {c \in DOMAIN callers : callers[c].pc = "done" /\ ~callers[c].response.success}

HasRefreshToken(e) == e \in Emails
HasIdToken(e) == e \in Emails

\* What the token endpoint may answer: an access token, a non-200 status, a
\* body without access_token, or no answer (the post raises).
RefreshOutcomes == {"access_token", "http_error", "no_access_token", "transport_error"}

\* An account as the pool hands it out: its email and which tokens it carries.
Account(e) == [email |-> e, refresh_token |-> HasRefreshToken(e), id_token |-> HasIdToken(e)]

\* _get_access_token_from_account, given the outcome of the refresh exchange
\* ("no_refresh_token": the account has none and no request is made). The
\* post raising (or a body that cannot be parsed) is not caught.
get_access_token_from_account(account, outcome) ==
    CASE outcome = "access_token" ->
             [raised |-> FALSE, token |-> Token(account.email, "access")]
      [] outcome \in {"no_refresh_token", "http_error", "no_access_token"} ->
             IF account.id_token
             THEN [raised |-> FALSE, token |-> Token(account.email, "id")]
             ELSE [raised |-> TRUE, token |-> NoToken]
      [] OTHER -> [raised |-> TRUE, token |-> NoToken]

\* Variant: the validity check without the age check.
is_session_valid_ignores_age(session, t, expired) ==
    /\ session.access_token # NoToken
    /\ ~expired

\* _is_session_valid, its checks: not older than 30 minutes, a token present,
\* the token not expired.
is_session_valid(session, t, expired) ==
    /\ ~(t - session.created_at > SESSION_TTL)
    /\ session.access_token # NoToken
    /\ ~expired

\* _is_session_valid, its side effect when the session is valid: the account
\* list and index of the session are restored into the manager.
RestoredManager(mgr, session) ==
    [mgr EXCEPT !.accounts = session.accounts,
                !.account_index = session.account_index,
                !.current_account =
                    IF session.accounts # <<>> /\ session.account_index < Len(session.accounts)
                    THEN session.accounts[session.account_index + 1]
                    ELSE @]

Done(t, op, status, token) ==
    [IdleTask EXCEPT !.op = op, !.pc = "done",
                     !.result = [status |-> status, token |-> token]]

\* The thread enters Lock.acquire while a suspended coroutine holds the lock.
BlocksOnLock(t, op) ==
    /\ blocked' = t
    /\ task' = [task EXCEPT ![t].op = op]
    /\ UNCHANGED <<current_session, manager, lock_holder, token_expired>>

\* What a step of a running coroutine leaves alone.
BrokerFrame == UNCHANGED <<now, accounts_per_request, last, callers, calls, attempts, pass>>

\* What the first step of a call leaves alone: one more call has been made.
CallFrame ==
    /\ calls < MaxCalls
    /\ calls' = calls + 1
    /\ UNCHANGED <<now, accounts_per_request, last, callers, attempts, pass>>

\* acquire_pool_access_token, lines 52-65: the cached session is checked under
\* the lock; without a valid one the allocate request is posted.
StartAcquire(t) ==
    /\ blocked = NULL
    /\ task[t].pc = "idle"
    /\ IF lock_holder # NULL
       THEN BlocksOnLock(t, "acquire")
       ELSE IF current_session.present
               /\ is_session_valid(current_session, clock, token_expired)
            THEN /\ manager' = RestoredManager(manager, current_session)
                 /\ task' = [task EXCEPT ![t] =
                                Done(t, "acquire", "cached", current_session.access_token)]
                 /\ UNCHANGED <<current_session, lock_holder, blocked, token_expired>>
            ELSE /\ task' = [task EXCEPT ![t].op = "acquire",
                                          ![t].pc = "allocate_wait",
                                          ![t].http = "sent"]
                 /\ UNCHANGED <<current_session, manager, lock_holder, blocked,
                                token_expired>>
    /\ UNCHANGED <<accounts, clock>>
    /\ CallFrame

\* acquire_pool_access_token, lines 90-107, once a token is derived (or the
\* derivation raised): the session is stored under the lock.
AcquireFinish(t, mgr, derived) ==
    IF derived.raised
    THEN /\ manager' = mgr
         /\ task' = [task EXCEPT ![t] = Done(t, "acquire", "error", NoToken)]
         /\ UNCHANGED <<current_session, lock_holder, blocked, token_expired>>
    ELSE IF lock_holder # NULL
         THEN /\ manager' = mgr
              /\ blocked' = t
              /\ UNCHANGED <<current_session, task, lock_holder, token_expired>>
         ELSE /\ current_session' =
                     [present |-> TRUE,
                      session_id |-> task[t].response.session_id,
                      accounts |-> task[t].response.accounts,
                      account |-> mgr.current_account,
                      account_index |-> 0,
                      access_token |-> derived.token,
                      created_at |-> clock]
              /\ manager' = [mgr EXCEPT !.current_session_id = task[t].response.session_id,
                                        !.access_token = derived.token]
              /\ token_expired' = FALSE
              /\ task' = [task EXCEPT ![t] = Done(t, "acquire", "ok", derived.token)]
              /\ UNCHANGED <<lock_holder, blocked>>

\* acquire_pool_access_token, lines 67-88: the allocate response arrives.
AcquireAllocated(t) ==
    /\ blocked = NULL
    /\ task[t].pc = "allocate_wait"
    /\ task[t].http \in {"served", "failed"}
    /\ IF \/ task[t].http = "failed"
          \/ ~task[t].response.success
          \/ task[t].response.accounts = <<>>
       THEN /\ task' = [task EXCEPT ![t] = Done(t, "acquire", "error", NoToken)]
            /\ UNCHANGED <<current_session, manager, lock_holder, blocked, token_expired>>
       ELSE LET first == task[t].response.accounts[1]
                mgr == [manager EXCEPT !.accounts = task[t].response.accounts,
                                       !.account_index = 0,
                                       !.current_account = first]
            IN IF HasRefreshToken(first)
               THEN /\ manager' = mgr
                    /\ task' = [task EXCEPT ![t].pc = "token_wait", ![t].http = "sent"]
                    /\ UNCHANGED <<current_session, lock_holder, blocked, token_expired>>
               ELSE AcquireFinish(t, mgr,
                                  get_access_token_from_account(Account(first), "no_refresh_token"))
    /\ UNCHANGED <<accounts, clock>>
    /\ BrokerFrame

\* acquire_pool_access_token resumes from the refresh exchange of the first account.
AcquireTokenDerived(t, outcome) ==
    /\ blocked = NULL
    /\ task[t].pc = "token_wait"
    /\ AcquireFinish(t, manager,
                     get_access_token_from_account(Account(task[t].response.accounts[1]),
                                                   outcome))
    /\ UNCHANGED <<accounts, clock>>
    /\ BrokerFrame

\* Variant: only the module-level session is dropped, the manager's fields stay.
ClearSessionOnly ==
    /\ current_session' = NoSession
    /\ UNCHANGED manager
    /\ token_expired' = FALSE

\* The session and the manager's fields set back to None/[]/0 (lines 249-254
\* and 341-346); the cached token is gone with them.
ClearSession ==
    /\ current_session' = NoSession
    /\ manager' = NewManager
    /\ token_expired' = FALSE

\* mark_current_account_quota_exhausted, lines 215-236: the current account is
\* read under the lock, then the mark request is posted.
StartMark(t) ==
    /\ blocked = NULL
    /\ task[t].pc = "idle"
    /\ IF lock_holder # NULL
       THEN BlocksOnLock(t, "mark")
       ELSE /\ IF ~current_session.present \/ current_session.account = NULL
               THEN task' = [task EXCEPT ![t] = Done(t, "mark", "false", NoToken)]
               ELSE task' = [task EXCEPT ![t].op = "mark",
                                         ![t].pc = "mark_wait",
                                         ![t].http = "sent",
                                         ![t].email = current_session.account]
            /\ UNCHANGED <<current_session, manager, lock_holder, blocked, token_expired>>
    /\ UNCHANGED <<accounts, clock>>
    /\ CallFrame

\* _switch_to_next_account, lines 294-310, once the token of the next account
\* is derived (or the derivation raised); the lock is released on the way out
\* and the caller clears the session when the switch reports False.
SwitchFinish(t, next_account, next_index, derived) ==
    /\ IF derived.raised \/ ~current_session.present
       THEN ClearSession
       ELSE /\ current_session' = [current_session EXCEPT !.account = next_account,
                                                          !.account_index = next_index,
                                                          !.access_token = derived.token]
            /\ manager' = [manager EXCEPT !.current_account = next_account,
                                          !.account_index = next_index,
                                          !.access_token = derived.token]
            /\ token_expired' = FALSE
    /\ lock_holder' = NULL
    /\ task' = [task EXCEPT ![t] = Done(t, "mark", "true", NoToken)]
    /\ UNCHANGED blocked

\* mark_current_account_quota_exhausted, lines 238-262, with the head of
\* _switch_to_next_account (lines 273-292): a 200 answer leads to the switch,
\* which takes the lock and keeps it while the next token is requested.
MarkAnswered(t) ==
    /\ blocked = NULL
    /\ task[t].pc = "mark_wait"
    /\ task[t].http \in {"served", "failed"}
    /\ IF task[t].http = "failed"
       THEN /\ task' = [task EXCEPT ![t] = Done(t, "mark", "false", NoToken)]
            /\ UNCHANGED <<current_session, manager, lock_holder, blocked, token_expired>>
       ELSE IF lock_holder # NULL
            THEN /\ blocked' = t
                 /\ UNCHANGED <<current_session, manager, lock_holder, task, token_expired>>
            ELSE IF \/ ~current_session.present
                    \/ current_session.account_index + 1 >= Len(current_session.accounts)
                 THEN /\ ClearSession
                      /\ task' = [task EXCEPT ![t] = Done(t, "mark", "true", NoToken)]
                      /\ UNCHANGED <<lock_holder, blocked>>
                 ELSE LET next_index == current_session.account_index + 1
                          next_account == current_session.accounts[next_index + 1]
                      IN IF HasRefreshToken(next_account)
                         THEN /\ lock_holder' = t
                              /\ task' = [task EXCEPT ![t].pc = "switch_token_wait",
                                                      ![t].http = "sent",
                                                      ![t].email = next_account,
                                                      ![t].next_index = next_index]
                              /\ UNCHANGED <<current_session, manager, blocked,
                                             token_expired>>
                         ELSE SwitchFinish(t, next_account, next_index,
                                  get_access_token_from_account(Account(next_account),
                                                                "no_refresh_token"))
    /\ UNCHANGED <<accounts, clock>>
    /\ BrokerFrame

\* _switch_to_next_account resumes from the refresh exchange, the lock still held.
SwitchTokenDerived(t, outcome) ==
    /\ blocked = NULL
    /\ task[t].pc = "switch_token_wait"
    /\ SwitchFinish(t, task[t].email, task[t].next_index,
                    get_access_token_from_account(Account(task[t].email), outcome))
    /\ UNCHANGED <<accounts, clock>>
    /\ BrokerFrame

\* release_current_session, lines 316-331: the lock is taken and kept while
\* the release request is posted.
StartRelease(t) ==
    /\ blocked = NULL
    /\ task[t].pc = "idle"
    /\ IF lock_holder # NULL
       THEN BlocksOnLock(t, "release")
       ELSE IF ~current_session.present \/ current_session.session_id = NULL
            THEN /\ task' = [task EXCEPT ![t] = Done(t, "release", "none", NoToken)]
                 /\ UNCHANGED <<current_session, manager, lock_holder, blocked,
                                token_expired>>
            ELSE /\ lock_holder' = t
                 /\ task' = [task EXCEPT ![t].op = "release",
                                         ![t].pc = "release_wait",
                                         ![t].http = "sent",
                                         ![t].session_id = current_session.session_id]
                 /\ UNCHANGED <<current_session, manager, blocked, token_expired>>
    /\ UNCHANGED <<accounts, clock>>
    /\ CallFrame

\* release_current_session, lines 333-346: whatever the answer, the session is
\* cleared and the lock released.
ReleaseAnswered(t) ==
    /\ blocked = NULL
    /\ task[t].pc = "release_wait"
    /\ task[t].http \in {"served", "failed"}
    /\ ClearSession
    /\ lock_holder' = NULL
    /\ task' = [task EXCEPT ![t] = Done(t, "release", "none", NoToken)]
    /\ UNCHANGED <<blocked, accounts, clock>>
    /\ BrokerFrame

\* get_current_account_info: a synchronous read under the lock.
GetCurrentAccountInfo(t) ==
    /\ blocked = NULL
    /\ task[t].pc = "idle"
    /\ IF lock_holder # NULL
       THEN BlocksOnLock(t, "info")
       ELSE /\ task' = [task EXCEPT ![t] =
                           Done(t, "info",
                                IF current_session.present /\ current_session.account # NULL
                                THEN "info" ELSE "none",
                                NoToken)]
            /\ UNCHANGED <<current_session, manager, lock_holder, blocked, token_expired>>
    /\ UNCHANGED <<accounts, clock>>
    /\ CallFrame

\* The coroutine has returned or raised; its caller goes on.
Finish(t) ==
    /\ blocked = NULL
    /\ task[t].pc = "done"
    /\ task' = [task EXCEPT ![t] = IdleTask]
    /\ UNCHANGED <<accounts, current_session, manager, lock_holder, blocked, clock,
                   token_expired>>
    /\ BrokerFrame

\* The pool service handles the request a coroutine has posted and answers 200.
ServeRequest(t) ==
    /\ task[t].http = "sent"
    /\ \/ /\ task[t].pc = "allocate_wait"
          /\ \E o \in allocate_accounts(accounts, NULL, ACCOUNTS_PER_REQUEST,
                                        accounts_per_request) :
                /\ accounts' = o.accounts
                /\ last' = Last("allocate", NULL, NULL, ACCOUNTS_PER_REQUEST, o.response)
                /\ task' = [task EXCEPT ![t].http = "served", ![t].response = o.response]
       \/ /\ task[t].pc = "mark_wait"
          /\ LET o == mark_quota_exhausted(accounts, task[t].email, now)
             IN /\ accounts' = o.accounts
                /\ last' = Last("mark", task[t].email, NULL, NULL, o.response)
                /\ task' = [task EXCEPT ![t].http = "served", ![t].response = o.response]
       \/ /\ task[t].pc = "release_wait"
          /\ LET o == release_accounts(accounts, task[t].session_id)
             IN /\ accounts' = o.accounts
                /\ last' = Last("release", NULL, task[t].session_id, NULL, o.response)
                /\ task' = [task EXCEPT ![t].http = "served", ![t].response = o.response]
    /\ UNCHANGED <<now, accounts_per_request, callers, current_session, manager,
                   lock_holder, blocked, clock, token_expired, calls, attempts, pass>>

\* The request or its answer is lost, times out, or the service answers with
\* an error status: the coroutine sees an exception or a non-200 response.
FailRequest(t) ==
    /\ task[t].pc \in {"allocate_wait", "mark_wait", "release_wait"}
    /\ task[t].http \in {"sent", "served"}
    /\ task' = [task EXCEPT ![t].http = "failed"]
    /\ UNCHANGED <<accounts, current_session, manager, lock_holder, blocked, clock,
                   token_expired>>
    /\ BrokerFrame

\* time.time() of the client advances; the clock is read only to stamp and
\* to age the cached session, and is advanced while there is one.
BrokerTick(d) ==
    /\ current_session.present
    /\ clock + d <= MaxClock
    /\ clock' = clock + d
    /\ UNCHANGED <<accounts, current_session, manager, lock_holder, blocked, task,
                   token_expired>>
    /\ BrokerFrame

\* The cached token passes its expiry (is_token_expired becomes true).
TokenExpires ==
    /\ current_session.present
    /\ ~token_expired
    /\ token_expired' = TRUE
    /\ UNCHANGED <<accounts, current_session, manager, lock_holder, blocked, task, clock>>
    /\ BrokerFrame

\* A pool with every account registered and available, and a client process
\* that has made no call yet.
BrokerPoolInit ==
    /\ accounts = [e \in Emails |-> AvailableRow]
    /\ now = 0
    /\ accounts_per_request \in Counts
    /\ last = Last("none", NULL, NULL, NULL, Response(FALSE, NULL, <<>>, 0))
    /\ callers = <<>>
    /\ BrokerInit
    /\ ReplenishIdle

BrokerNext ==
    \/ \E t \in Tasks : StartAcquire(t)
    \/ \E t \in Tasks : AcquireAllocated(t)
    \/ \E t \in Tasks : \E outcome \in RefreshOutcomes : AcquireTokenDerived(t, outcome)
    \/ \E t \in Tasks : StartMark(t)
    \/ \E t \in Tasks : MarkAnswered(t)
    \/ \E t \in Tasks : \E outcome \in RefreshOutcomes : SwitchTokenDerived(t, outcome)
    \/ \E t \in Tasks : StartRelease(t)
    \/ \E t \in Tasks : ReleaseAnswered(t)
    \/ \E t \in Tasks : GetCurrentAccountInfo(t)
    \/ \E t \in Tasks : Finish(t)
    \/ \E t \in Tasks : ServeRequest(t)
    \/ \E t \in Tasks : FailRequest(t)
    \/ \E d \in TickSeconds : BrokerTick(d)
    \/ TokenExpires

SpecBroker == BrokerPoolInit /\ [][BrokerNext]_vars

\* C2: within the broker at most one allocate request is in flight at any
\* time (a second request for a token waits for the first and reuses its lease).
AtMostOneAllocateInFlight ==
    Cardinality({t \in Tasks : task[t].pc = "allocate_wait"}) <= 1

\* C3: the broker never deadlocks: no coroutine ever waits for the session
\* lock while the lock is held across a remote call by a suspended coroutine
\* of the same event loop.
NoBrokerDeadlock == blocked = NULL


(***************************************************************************)
(* A mark_quota_exhausted request for a leased account racing with the     *)
(* release request of the session that leases it: both are posted, the     *)
(* service handles them one at a time in either order, time may pass.      *)
(***************************************************************************)
RaceCaller(op, email, session_id) ==
    [op |-> op, pc |-> "pending", email |-> email, session_id |-> session_id,
     response |-> Response(FALSE, NULL, <<>>, 0), served_at |-> NULL]

\* The rows a table can hold at time 0.
TableRows ==
    {AvailableRow, AbsentRow,
     [status |-> "quota_exhausted", session_id |-> NULL, quota_exhausted_at |-> 0]}
    \cup {[status |-> "in_use", session_id |-> sid, quota_exhausted_at |-> NULL]
          : sid \in SessionIds}

\* Any table with an account leased by a session; caller 1 marks that account,
\* caller 2 releases that session.
MarkReleaseRaceInit ==
    /\ accounts \in [Emails -> TableRows]
    /\ now = 0
    /\ accounts_per_request \in Counts
    /\ last = Last("none", NULL, NULL, NULL, Response(FALSE, NULL, <<>>, 0))
    /\ \E e \in Emails :
          /\ accounts[e].status = "in_use"
          /\ callers = <<RaceCaller("mark", e, NULL),
                         RaceCaller("release", NULL, accounts[e].session_id)>>
    /\ BrokerInit
    /\ ReplenishIdle

\* The service handles the mark request.
ServeMark(c) ==
    /\ callers[c].op = "mark"
    /\ callers[c].pc = "pending"
    /\ LET o == mark_quota_exhausted(accounts, callers[c].email, now)
       IN /\ accounts' = o.accounts
          /\ last' = Last("mark", callers[c].email, NULL, NULL, o.response)
          /\ callers' = [callers EXCEPT ![c].pc = "done",
                                        ![c].response = o.response,
                                        ![c].served_at = now]
    /\ UNCHANGED <<now, accounts_per_request>>
    /\ UNCHANGED brokerVars
    /\ UNCHANGED replenishVars

\* The service handles the release request.
ServeRelease(c) ==
    /\ callers[c].op = "release"
    /\ callers[c].pc = "pending"
    /\ LET o == release_accounts(accounts, callers[c].session_id)
       IN /\ accounts' = o.accounts
          /\ last' = Last("release", NULL, callers[c].session_id, NULL, o.response)
          /\ callers' = [callers EXCEPT ![c].pc = "done",
                                        ![c].response = o.response,
                                        ![c].served_at = now]
    /\ UNCHANGED <<now, accounts_per_request>>
    /\ UNCHANGED brokerVars
    /\ UNCHANGED replenishVars

MarkReleaseRaceNext ==
    \/ \E c \in DOMAIN callers : ServeMark(c)
    \/ \E c \in DOMAIN callers : ServeRelease(c)
    \/ \E d \in TickDays : Tick(d)

SpecMarkReleaseRace == MarkReleaseRaceInit /\ [][MarkReleaseRaceNext]_vars

\* C11: when a mark of a leased credential races with the release of the
\* leasing session, every order of the two ends in the same state: the
\* credential is quota_exhausted, bound to no session, stamped with the time
\* of the mark, and nothing is left bound to the session; once marked, the
\* credential is never turned back to available by the release.
MarkWinsOverRelease ==
    /\ callers[1].pc = "done" =>
          accounts[callers[1].email] =
              [status |-> "quota_exhausted", session_id |-> NULL,
               quota_exhausted_at |-> callers[1].served_at]
    /\ callers[2].pc = "done" => BoundTo(accounts, callers[2].session_id) = {}
    /\ (callers[1].pc = "done" /\ callers[2].pc = "done") =>
          /\ callers[1].response.success
          /\ accounts[callers[1].email].quota_exhausted_at # NULL

\* Both requests are answered, the release first and the mark a tick later.
MarkWinsOverReleaseWitness ==
    /\ callers[1].pc = "done"
    /\ callers[2].pc = "done"
    /\ callers[2].response.success
    /\ callers[2].served_at < callers[1].served_at
    /\ accounts[callers[1].email].status = "quota_exhausted"


(***************************************************************************)
(* Properties of the client's token manager under SpecBroker.              *)
(***************************************************************************)
\* The step in which mark_current_account_quota_exhausted of task t returns
\* True: the pool answered 200 and the switch was attempted.
MarkCompletes(t) ==
    /\ task[t].op = "mark"
    /\ task[t].pc \in {"mark_wait", "switch_token_wait"}
    /\ task'[t].pc = "done"
    /\ task'[t].result.status = "true"

\* C12: when the handling of a quota-exhausted signal completes and the lease
\* has a credential after the active one, that credential becomes the active
\* one of the same lease with a token derived from it and nothing is allocated;
\* the lease is given up (so that the next acquire allocates) only when every
\* credential of the lease is exhausted at the pool.
SwitchesWithinLease ==
    [][\A t \in Tasks :
          (MarkCompletes(t) /\ current_session.present) =>
             /\ current_session.account_index + 1 < Len(current_session.accounts) =>
                   /\ current_session'.present
                   /\ current_session'.session_id = current_session.session_id
                   /\ current_session'.accounts = current_session.accounts
                   /\ current_session'.account_index = current_session.account_index + 1
                   /\ current_session'.account =
                          current_session.accounts[current_session.account_index + 2]
                   /\ current_session'.access_token.email = current_session'.account
                   /\ accounts' = accounts
             /\ ~current_session'.present =>
                   \A e \in Range(current_session.accounts) :
                       accounts[e].status = "quota_exhausted"]_vars

\* The step in which mark_current_account_quota_exhausted of task t returns,
\* whatever it returns.
MarkReturns(t) ==
    /\ task[t].op = "mark"
    /\ task[t].pc \in {"mark_wait", "switch_token_wait"}
    /\ task'[t].pc = "done"

\* The credential whose quota-exhausted signal task t is handling.
SignalledAccount(t) ==
    IF task[t].pc = "mark_wait" THEN task[t].email ELSE current_session.account

\* The step in which acquire_pool_access_token of task t returns a token.
AcquireReturns(t) ==
    /\ task[t].op \in {"idle", "acquire"}
    /\ task[t].pc \in {"idle", "token_wait"}
    /\ task'[t].op = "acquire"
    /\ task'[t].pc = "done"
    /\ task'[t].result.status \in {"ok", "cached"}

\* C13: once the broker has handled the quota-exhausted signal of its active
\* credential c, the token it holds is not derived from c, and no acquire
\* returns, with no signal being handled at that moment, a token derived
\* from a credential that was marked exhausted (with the lease given up, the
\* token comes from a fresh allocation).
ExhaustedCredentialNotReused ==
    [][\A t \in Tasks :
          /\ MarkReturns(t) =>
                (current_session'.present =>
                    current_session'.access_token.email # SignalledAccount(t))
          /\ (AcquireReturns(t) /\ \A u \in Tasks : task[u].op # "mark") =>
                accounts[task'[t].result.token.email].status # "quota_exhausted"]_vars

\* The first step of acquire_pool_access_token of task t, the thread not
\* being stuck on the lock.
AcquireStarts(t) ==
    /\ task[t].pc = "idle"
    /\ task'[t].op = "acquire"
    /\ task'[t].pc # "idle"

\* What an acquire does on entry, `fresh` telling whether a cached lease is
\* young enough: with a cached lease that is fresh and whose token is not
\* expired it returns the cached token and posts nothing; in every other case
\* it returns nothing yet and posts an allocate request. And the acquire that
\* allocated stores the lease of the answer, its token derived from the
\* first credential of that lease.
AcquireChecksCache(t, fresh) ==
    /\ AcquireStarts(t) =>
          IF current_session.present /\ fresh /\ ~token_expired
          THEN /\ task'[t].pc = "done"
               /\ task'[t].result = [status |-> "cached",
                                     token |-> current_session.access_token]
               /\ task'[t].http = "none"
          ELSE /\ task'[t].pc = "allocate_wait"
               /\ task'[t].http = "sent"
    /\ (task[t].pc = "token_wait" /\ task'[t].pc = "done"
           /\ task'[t].result.status = "ok") =>
          /\ current_session'.session_id = task[t].response.session_id
          /\ current_session'.accounts = task[t].response.accounts
          /\ task'[t].result.token.email = task[t].response.accounts[1]
          /\ current_session'.access_token = task'[t].result.token

DeriveAccounts ==
    [email : Emails, refresh_token : BOOLEAN, id_token : BOOLEAN]

Derivation(account) ==
    [account |-> account, pc |-> "start", outcome |-> "none", token |-> NoToken]

DeriveInit ==
    /\ PoolInit
    /\ accounts_per_request = 1
    /\ callers \in [Tasks -> {Derivation(a) : a \in DeriveAccounts}]
    /\ BrokerInit
    /\ ReplenishIdle

\* The result of the derivation recorded in its caller.
Derived(c, outcome) ==
    LET r == get_access_token_from_account(callers[c].account, outcome)
    IN callers' = [callers EXCEPT ![c].pc = IF r.raised THEN "raised" ELSE "returned",
                                  ![c].outcome = outcome,
                                  ![c].token = r.token]

\* Lines 124-144: without a refresh token the function returns at once;
\* with one it posts the refresh request.
DeriveStart(c) ==
    /\ callers[c].pc = "start"
    /\ IF callers[c].account.refresh_token
       THEN callers' = [callers EXCEPT ![c].pc = "posted"]
       ELSE Derived(c, "no_refresh_token")
    /\ UNCHANGED <<accounts, now, accounts_per_request, last>>
    /\ UNCHANGED brokerVars
    /\ UNCHANGED replenishVars

\* Lines 145-167: the refresh request ends in one of its outcomes.
DeriveAnswered(c, outcome) ==
    /\ callers[c].pc = "posted"
    /\ Derived(c, outcome)
    /\ UNCHANGED <<accounts, now, accounts_per_request, last>>
    /\ UNCHANGED brokerVars
    /\ UNCHANGED replenishVars

DeriveNext ==
    \/ \E c \in DOMAIN callers : DeriveStart(c)
    \/ \E c \in DOMAIN callers : \E outcome \in RefreshOutcomes : DeriveAnswered(c, outcome)

SpecDerive == DeriveInit /\ [][DeriveNext]_vars

\* C15: whenever the refresh exchange of a credential fails (non-success
\* response, response without access token, transport error) and the
\* credential has an id_token, the derivation returns that id_token; a
\* derivation fails only for a credential without an id_token whose
\* exchange did not yield an access token.
FallsBackToIdToken ==
    \A c \in DOMAIN callers :
        /\ (/\ callers[c].outcome \in {"http_error", "no_access_token", "transport_error"}
            /\ callers[c].account.id_token) =>
               /\ callers[c].pc = "returned"
               /\ callers[c].token = Token(callers[c].account.email, "id")
        /\ callers[c].pc = "raised" =>
               /\ ~callers[c].account.id_token
               /\ callers[c].outcome # "access_token"


\* The first step of release_current_session of task t, the thread not being
\* stuck on the lock.
ReleaseStarts(t) ==
    /\ task[t].pc = "idle"
    /\ task'[t].op = "release"
    /\ task'[t].pc # "idle"

\* C16: a release of the broker with a session held posts the pool's release
\* for that session (which leaves nothing bound to it once served), and when
\* it returns, whatever the outcome of the call, the local cache is empty: no
\* session, session id, accounts, active account or token; with no session
\* held it posts nothing and changes nothing.
ReleaseClearsCache ==
    [][\A t \in Tasks :
          /\ ReleaseStarts(t) =>
                IF current_session.present
                THEN /\ task'[t].pc = "release_wait"
                     /\ task'[t].http = "sent"
                     /\ task'[t].session_id = current_session.session_id
                ELSE /\ task'[t].pc = "done"
                     /\ task'[t].http = "none"
                     /\ UNCHANGED <<accounts, current_session, manager>>
          /\ (task[t].pc = "release_wait" /\ task[t].http = "sent"
                 /\ task'[t].http = "served") =>
                BoundTo(accounts', task[t].session_id) = {}
          /\ (task[t].pc = "release_wait" /\ task'[t].pc = "done") =>
                /\ task[t].http \in {"served", "failed"}
                /\ current_session' = NoSession
                /\ manager' = NewManager]_vars

\* A release has returned with the cache empty after the pool released the
\* accounts of the session it held.
ReleaseClearsCacheWitness ==
    \E t \in Tasks :
        /\ task[t].op = "release"
        /\ task[t].pc = "done"
        /\ current_session = NoSession
        /\ manager = NewManager
        /\ last.req.op = "release"
        /\ last.resp.success


(***************************************************************************)
(* BatchRegister.register_accounts_concurrent (batch_register.py): a pass  *)
(* submits `count` calls of _register_single_account to a thread pool and  *)
(* then collects the futures as they complete.                             *)
(***************************************************************************)
BatchCounts == 1..MaxBatch
\* The sizes a BatchRegister is constructed with: small ones and the default.
WorkerCounts == (1..MaxWorkers) \cup {max_workers}
\* How the registration flow of an attempt ends: with tokens, with a failure
\* result, with an exception the attempt catches, or with one that escapes
\* `except Exception` and is kept by the future.
RegistrationOutcomes == {"success", "failure", "exception", "uncaught"}

\* A future just submitted. `overdue`: the attempt has been running for more
\* than the 300 s given to future.result.
NewAttempt(index) ==
    [index |-> index, pc |-> "queued", overdue |-> FALSE, email |-> NULL,
     success |-> FALSE, raised |-> FALSE, collected |-> FALSE]

\* What the collecting loop gets from a completed future: the result
\* dictionary the attempt returned, or, future.result having raised, the
\* error result built by the except branch (lines 111-121), whose index is -1.
AttemptResult(a) ==
    IF a.raised
    THEN [success |-> FALSE, index |-> -1]
    ELSE [success |-> a.success, index |-> a.index]

\* Variant: the collecting loop without its except branch, the exception of
\* a future leaving the pass.
collect_reraises(p, result) ==
    IF result.index = -1
    THEN [p EXCEPT !.pc = "raised"]
    ELSE [p EXCEPT !.results = Append(@, result),
                   !.success_count = IF result.success THEN @ + 1 ELSE @,
                   !.failed_count = IF result.success THEN @ ELSE @ + 1]

\* Variant: a failed result is counted and not kept.
collect_drops_failed(p, result) ==
    [p EXCEPT !.results = IF result.success THEN Append(@, result) ELSE @,
              !.success_count = IF result.success THEN @ + 1 ELSE @,
              !.failed_count = IF result.success THEN @ ELSE @ + 1]

\* The body of the collecting loop for one completed future (lines 90-109).
collect(p, result) ==
    [p EXCEPT !.results = Append(@, result),
              !.success_count = IF result.success THEN @ + 1 ELSE @,
              !.failed_count = IF result.success THEN @ ELSE @ + 1]

\* The threads that are running an attempt.
Busy == {i \in DOMAIN attempts : attempts[i].pc \in {"running", "registered", "hung"}}

\* register_accounts_concurrent(count) has been called, on an empty table, on
\* a BatchRegister of some pool size.
ReplenishInit ==
    /\ PoolInit
    /\ accounts_per_request = 1
    /\ callers = <<>>
    /\ BrokerInit
    /\ attempts = <<>>
    /\ \E count \in BatchCounts, workers \in WorkerCounts :
          pass = [NoPass EXCEPT !.pc = "submitting", !.count = count,
                                !.max_workers = workers]

ReplenishFrame ==
    UNCHANGED <<now, accounts_per_request, last, callers, current_session, manager,
                lock_holder, blocked, task, clock, token_expired, calls>>

\* Lines 82-84: the next attempt is submitted.
Submit ==
    /\ pass.pc = "submitting"
    /\ pass.submitted < pass.count
    /\ attempts' = Append(attempts, NewAttempt(pass.submitted + 1))
    /\ pass' = [pass EXCEPT !.submitted = @ + 1, !.pc = "sleeping"]
    /\ UNCHANGED accounts
    /\ ReplenishFrame

\* Line 86: time.sleep(random.uniform(0.5, 1.5)) after a submission is over;
\* the loop submits the next attempt or, after the last one, ends.
SubmitDelayElapsed ==
    /\ pass.pc = "sleeping"
    /\ pass' = [pass EXCEPT !.pc = IF pass.submitted = pass.count
                                   THEN "collecting" ELSE "submitting"]
    /\ UNCHANGED <<accounts, attempts>>
    /\ ReplenishFrame

\* Variant: a pool that starts a thread for every queued attempt.
AttemptStart_unbounded(i) ==
    /\ i \in DOMAIN attempts
    /\ attempts[i].pc = "queued"
    /\ attempts' = [attempts EXCEPT ![i].pc = "running"]
    /\ UNCHANGED <<accounts, pass>>
    /\ ReplenishFrame

\* A free thread of the pool takes a queued attempt.
AttemptStart(i) ==
    /\ i \in DOMAIN attempts
    /\ attempts[i].pc = "queued"
    /\ Cardinality(Busy) < pass.max_workers
    /\ attempts' = [attempts EXCEPT ![i].pc = "running"]
    /\ UNCHANGED <<accounts, pass>>
    /\ ReplenishFrame

\* _register_single_account, lines 391-396 and 437-470: the registration
\* flow returns its tokens, reports a failure, or raises.
AttemptRegisters(i, outcome, e) ==
    /\ i \in DOMAIN attempts
    /\ attempts[i].pc = "running"
    /\ attempts' = [attempts EXCEPT
                       ![i].pc = IF outcome = "success" THEN "registered" ELSE "done",
                       ![i].email = IF outcome = "success" THEN e ELSE @,
                       ![i].raised = (outcome = "uncaught")]
    /\ UNCHANGED <<accounts, pass>>
    /\ ReplenishFrame

\* _register_single_account, lines 397-445: a failed activation is the
\* attempt's failure; after a successful one the account is added to the
\* store, an exception of add_account (duplicate key, store fault) is caught,
\* and the attempt reports success.
AttemptActivates(i, activated, store_fault) ==
    /\ i \in DOMAIN attempts
    /\ attempts[i].pc = "registered"
    /\ IF activated
       THEN LET r == add_account(accounts, attempts[i].email, AvailableRow)
            IN /\ accounts' = IF store_fault THEN accounts ELSE r.accounts
               /\ attempts' = [attempts EXCEPT ![i].pc = "done", ![i].success = TRUE]
       ELSE /\ UNCHANGED accounts
            /\ attempts' = [attempts EXCEPT ![i].pc = "done"]
    /\ UNCHANGED pass
    /\ ReplenishFrame

\* More than 300 s have passed since the attempt started.
AttemptOverdue(i) ==
    /\ i \in DOMAIN attempts
    /\ attempts[i].pc \in {"running", "registered", "hung"}
    /\ ~attempts[i].overdue
    /\ attempts' = [attempts EXCEPT ![i].overdue = TRUE]
    /\ UNCHANGED <<accounts, pass>>
    /\ ReplenishFrame

\* The attempt blocks for good in one of its remote calls.
AttemptHangs(i) ==
    /\ i \in DOMAIN attempts
    /\ attempts[i].pc \in {"running", "registered"}
    /\ attempts' = [attempts EXCEPT ![i].pc = "hung"]
    /\ UNCHANGED <<accounts, pass>>
    /\ ReplenishFrame

\* Lines 89-121: as_completed hands over a future that has completed,
\* future.result(timeout=300) returns its result at once; after the last
\* future the executor is shut down (every thread has finished) and the
\* pass returns.
Collect(i) ==
    /\ i \in DOMAIN attempts
    /\ pass.pc = "collecting"
    /\ attempts[i].pc = "done"
    /\ ~attempts[i].collected
    /\ attempts' = [attempts EXCEPT ![i].collected = TRUE]
    /\ LET p == collect(pass, AttemptResult(attempts[i]))
       IN pass' = [p EXCEPT !.pc = IF \A j \in DOMAIN attempts :
                                         j # i => attempts[j].collected
                                   THEN "returned" ELSE @]
    /\ UNCHANGED accounts
    /\ ReplenishFrame

ReplenishNext ==
    \/ Submit
    \/ SubmitDelayElapsed
    \/ \E i \in BatchCounts : AttemptStart(i)
    \/ \E i \in BatchCounts, outcome \in RegistrationOutcomes, e \in Emails :
          AttemptRegisters(i, outcome, e)
    \/ \E i \in BatchCounts, activated \in BOOLEAN, store_fault \in BOOLEAN :
          AttemptActivates(i, activated, store_fault)
    \/ \E i \in BatchCounts : AttemptOverdue(i)
    \/ \E i \in BatchCounts : AttemptHangs(i)
    \/ \E i \in BatchCounts : Collect(i)

SpecReplenish == ReplenishInit /\ [][ReplenishNext]_vars

\* The pass and every thread that is not hanging keep running.
ReplenishFairness ==
    /\ WF_vars(Submit)
    /\ WF_vars(SubmitDelayElapsed)
    /\ \A i \in BatchCounts :
          /\ WF_vars(AttemptStart(i))
          /\ WF_vars(\E outcome \in RegistrationOutcomes, e \in Emails :
                         AttemptRegisters(i, outcome, e))
          /\ WF_vars(\E activated \in BOOLEAN, store_fault \in BOOLEAN :
                         AttemptActivates(i, activated, store_fault))
          /\ WF_vars(Collect(i))

SpecReplenishFair == ReplenishInit /\ [][ReplenishNext]_vars /\ ReplenishFairness

\* C17: a replenishment pass terminates, whatever its attempts do: an attempt
\* that hangs or runs beyond the 300 s is abandoned and counted as a failure,
\* and the results of the other attempts are collected.
PassTerminates == <>(pass.pc = "returned")

\* The step in which attempt i completes.
AttemptCompletes(i) ==
    /\ i \in DOMAIN attempts
    /\ attempts[i].pc # "done"
    /\ attempts'[i].pc = "done"

\* C18: an attempt that has exceeded its timeout writes nothing to the store
\* afterwards, and an attempt that fails leaves the store as it was.
OverdueAttemptWritesNothing ==
    [][\A i \in BatchCounts :
          AttemptCompletes(i) =>
             /\ attempts[i].overdue => accounts' = accounts
             /\ ~attempts'[i].success => accounts' = accounts]_vars

\* C19: when a pass on an empty pool has returned, the store holds as many
\* credentials, all available, as attempts were reported successful, each
\* under the email of a successful attempt, and the failures reported are the
\* remaining attempts.
StoredEqualsReportedSuccesses ==
    pass.pc = "returned" =>
       /\ Cardinality(Existing(accounts)) = pass.success_count
       /\ Existing(accounts) = WithStatus(accounts, "available")
       /\ Existing(accounts) =
             {attempts[i].email : i \in {j \in DOMAIN attempts : attempts[j].success}}
       /\ pass.failed_count = pass.count - pass.success_count

\* C20: a pass for count = n launches n attempts and no more, and every
\* attempt contributes exactly one result: the results collected so far are
\* those of distinct attempts and are all counted, and at return
\* success_count + failed_count = n = number of results.
OneResultPerAttempt ==
    /\ Len(attempts) = pass.submitted
    /\ pass.submitted <= pass.count
    /\ \A i \in DOMAIN attempts : attempts[i].index = i
    /\ pass.success_count + pass.failed_count = Len(pass.results)
    /\ Len(pass.results) = Cardinality({i \in DOMAIN attempts : attempts[i].collected})
    /\ \A k, l \in DOMAIN pass.results :
          (k # l /\ pass.results[k].index # -1) =>
              pass.results[k].index # pass.results[l].index
    /\ \A k \in DOMAIN pass.results :
          pass.results[k].index # -1 =>
              /\ pass.results[k].index \in DOMAIN attempts
              /\ attempts[pass.results[k].index].collected
              /\ pass.results[k].success = attempts[pass.results[k].index].success
    /\ pass.pc = "returned" =>
          /\ Len(attempts) = pass.count
          /\ Len(pass.results) = pass.count
          /\ pass.success_count + pass.failed_count = pass.count

\* A pass of MaxBatch attempts has returned with successes and failures.
OneResultPerAttemptWitness ==
    /\ pass.pc = "returned"
    /\ pass.count = MaxBatch
    /\ pass.success_count > 0
    /\ pass.failed_count > 0

\* An attempt is submitted in this step.
Submits == Len(attempts') = Len(attempts) + 1

\* C21: during a pass at most max_workers attempts are running at any time,
\* and the attempts are launched one at a time in index order: attempt i + 1
\* is submitted only once attempt i has been submitted and the delay after
\* it has elapsed.
BoundedStaggeredLaunch ==
    /\ [](Cardinality(Busy) <= pass.max_workers)
    /\ [](pass.pc = "sleeping" => Len(attempts) = pass.submitted /\ pass.submitted > 0)
    /\ [][/\ Len(attempts') \in {Len(attempts), Len(attempts) + 1}
          /\ Submits =>
                /\ pass.pc = "submitting"
                /\ pass'.pc = "sleeping"
                /\ attempts'[Len(attempts')].index = Len(attempts) + 1
                /\ \A i \in DOMAIN attempts : attempts'[i] = attempts[i]
          /\ (pass.pc # "submitting" /\ pass'.pc = "submitting") =>
                pass.pc = "sleeping" /\ attempts' = attempts]_vars

\* Every thread of a pool smaller than the batch is busy and an attempt waits.
BoundedStaggeredLaunchWitness ==
    /\ pass.max_workers < pass.count
    /\ Cardinality(Busy) = pass.max_workers
    /\ \E i \in DOMAIN attempts : attempts[i].pc = "queued"
    /\ Len(attempts) = MaxBatch

\* The attempts whose outcome the pass has taken over.
Collected == {i \in DOMAIN attempts : attempts[i].collected}

CreatedOnlyByActivatedAttempt ==
    [][\A e \in Emails :
          (accounts[e].status = "absent" /\ accounts'[e].status # "absent") =>
             /\ last'.req.op = "add"
             /\ last'.req.email = e
             /\ accounts'[e] = AvailableRow]_vars

\* C24: allocate does not wait for supply: a request for `count` credentials
\* made when fewer than `count` are available (and the session holds none yet)
\* is answered at once with the structured failure (success = false, empty
\* account list), and every row is as it was.
AllocateInsufficientFailsAtOnce ==
    [][(/\ last'.req.op = "allocate"
        /\ \/ last'.req.session_id = NULL
           \/ BoundTo(accounts, last'.req.session_id) = {}
        /\ pool_stats(accounts).available < last'.req.count) =>
          /\ ~last'.resp.success
          /\ last'.resp.accounts = <<>>
          /\ accounts' = accounts]_vars

ReleaseCaller(session_id) ==
    [pc |-> "start", session_id |-> session_id,
     before |-> accounts, after_first |-> accounts,
     first |-> Response(FALSE, NULL, <<>>, 0),
     second |-> Response(FALSE, NULL, <<>>, 0)]

ReleaseTwiceInit ==
    /\ accounts \in [Emails -> TableRows]
    /\ now = 0
    /\ accounts_per_request \in Counts
    /\ last = Last("none", NULL, NULL, NULL, Response(FALSE, NULL, <<>>, 0))
    /\ \E sid \in SessionIds : callers = <<ReleaseCaller(sid)>>
    /\ BrokerInit
    /\ ReplenishIdle

\* The service handles the first release request.
ReleaseFirst ==
    /\ callers[1].pc = "start"
    /\ LET o == release_accounts(accounts, callers[1].session_id)
       IN /\ accounts' = o.accounts
          /\ last' = Last("release", NULL, callers[1].session_id, NULL, o.response)
          /\ callers' = [callers EXCEPT ![1].pc = "once",
                                        ![1].first = o.response,
                                        ![1].after_first = o.accounts]
    /\ UNCHANGED <<now, accounts_per_request>>
    /\ UNCHANGED brokerVars
    /\ UNCHANGED replenishVars

\* The service handles the second release request.
ReleaseSecond ==
    /\ callers[1].pc = "once"
    /\ LET o == release_accounts(accounts, callers[1].session_id)
       IN /\ accounts' = o.accounts
          /\ last' = Last("release", NULL, callers[1].session_id, NULL, o.response)
          /\ callers' = [callers EXCEPT ![1].pc = "twice",
                                        ![1].second = o.response]
    /\ UNCHANGED <<now, accounts_per_request>>
    /\ UNCHANGED brokerVars
    /\ UNCHANGED replenishVars

ReleaseTwiceNext ==
    \/ ReleaseFirst
    \/ ReleaseSecond

SpecReleaseTwice == ReleaseTwiceInit /\ [][ReleaseTwiceNext]_vars

\* What a release of the session does to the table `before`, giving `after`:
\* every row bound to the session is available with the binding cleared, and
\* every other row is as it was.
ReleasedFrom(before, after, session_id) ==
    \A e \in Emails :
        IF e \in BoundTo(before, session_id)
        THEN after[e] = [before[e] EXCEPT !.status = "available", !.session_id = NULL]
        ELSE after[e] = before[e]

MarkUnknownEmailFails ==
    [][(last'.req.op = "mark" /\ accounts[last'.req.email].status = "absent") =>
          /\ ~last'.resp.success
          /\ accounts' = accounts]_vars

\* A mark of an email without a row has been answered while the table holds
\* another account.
MarkUnknownEmailFailsWitness ==
    /\ last.req.op = "mark"
    /\ ~last.resp.success
    /\ accounts[last.req.email].status = "absent"
    /\ Existing(accounts) # {}


(***************************************************************************)
(* Requests served while the database may be out of reach: one request     *)
(* (mark, release or allocate) against any table, with the store either    *)
(* available or failing every statement.                                   *)
(***************************************************************************)
\* An HTTP answer: 200 with a body, or an HTTPException with its status code.
HttpResponse(status_code, body) == [status_code |-> status_code, body |-> body]

NoBody == Response(FALSE, NULL, <<>>, 0)

\* QuotaTracker.mark_account_quota_exhausted with its try/except: an exception
\* of sqlite3 (connect, execute, commit) is logged and False is returned.
mark_account_quota_exhausted_guarded(store_available, accts, email, t) ==
    IF store_available
    THEN mark_account_quota_exhausted(accts, email, t)
    ELSE [ok |-> FALSE, accounts |-> accts]

\* POST /api/accounts/mark_quota_exhausted: the tracker raises nothing, so the
\* handler's own `except Exception` (500) is never entered by a store fault.
mark_quota_exhausted_request(store_available, accts, email, t) ==
    LET r == mark_account_quota_exhausted_guarded(store_available, accts, email, t)
    IN [http |-> HttpResponse(200, Response(r.ok, NULL, <<>>, 0)),
        accounts |-> r.accounts]

\* POST /api/accounts/release: an exception of the manager becomes
\* HTTPException(500); the manager raises for a store fault.
release_accounts_request(store_available, accts, session_id) ==
    IF store_available
    THEN LET o == release_accounts(accts, session_id)
         IN [http |-> HttpResponse(200, o.response), accounts |-> o.accounts]
    ELSE [http |-> HttpResponse(500, NoBody), accounts |-> accts]

\* POST /api/accounts/allocate: an exception of the manager becomes
\* HTTPException(500); the manager raises for a store fault.
allocate_accounts_request(store_available, accts, session_id, count, per_request) ==
    IF store_available
    THEN {[http |-> HttpResponse(200, o.response), accounts |-> o.accounts]
          : o \in allocate_accounts(accts, session_id, count, per_request)}
    ELSE {[http |-> HttpResponse(500, NoBody), accounts |-> accts]}

StoreCaller(op, email, session_id, store_available) ==
    [op |-> op, pc |-> "pending", email |-> email, session_id |-> session_id,
     store_available |-> store_available, http |-> HttpResponse(0, NoBody)]

StoreFaultInit ==
    /\ accounts \in [Emails -> TableRows]
    /\ now = 0
    /\ accounts_per_request \in Counts
    /\ last = Last("none", NULL, NULL, NULL, Response(FALSE, NULL, <<>>, 0))
    /\ \E store_available \in BOOLEAN :
          \/ \E e \in Emails :
                callers = <<StoreCaller("mark", e, NULL, store_available)>>
          \/ \E sid \in SessionIds :
                callers = <<StoreCaller("release", NULL, sid, store_available)>>
          \/ \E sid \in SessionIds :
                callers = <<StoreCaller("allocate", NULL, sid, store_available)>>
    /\ BrokerInit
    /\ ReplenishIdle

StoreFrame ==
    /\ UNCHANGED <<now, accounts_per_request>>
    /\ UNCHANGED brokerVars
    /\ UNCHANGED replenishVars

ServeMarkRequest ==
    /\ callers[1].op = "mark"
    /\ callers[1].pc = "pending"
    /\ LET o == mark_quota_exhausted_request(callers[1].store_available, accounts,
                                             callers[1].email, now)
       IN /\ accounts' = o.accounts
          /\ last' = Last("mark", callers[1].email, NULL, NULL, o.http.body)
          /\ callers' = [callers EXCEPT ![1].pc = "done", ![1].http = o.http]
    /\ StoreFrame

ServeReleaseRequest ==
    /\ callers[1].op = "release"
    /\ callers[1].pc = "pending"
    /\ LET o == release_accounts_request(callers[1].store_available, accounts,
                                         callers[1].session_id)
       IN /\ accounts' = o.accounts
          /\ last' = Last("release", NULL, callers[1].session_id, NULL, o.http.body)
          /\ callers' = [callers EXCEPT ![1].pc = "done", ![1].http = o.http]
    /\ StoreFrame

ServeAllocateRequest ==
    /\ callers[1].op = "allocate"
    /\ callers[1].pc = "pending"
    /\ \E o \in allocate_accounts_request(callers[1].store_available, accounts,
                                          callers[1].session_id, accounts_per_request,
                                          accounts_per_request) :
          /\ accounts' = o.accounts
          /\ last' = Last("allocate", NULL, callers[1].session_id,
                          accounts_per_request, o.http.body)
          /\ callers' = [callers EXCEPT ![1].pc = "done", ![1].http = o.http]
    /\ StoreFrame

StoreFaultNext ==
    \/ ServeMarkRequest
    \/ ServeReleaseRequest
    \/ ServeAllocateRequest

SpecStoreFault == StoreFaultInit /\ [][StoreFaultNext]_vars

\* C28: a request served while the store is unavailable is answered with an
\* error (a 5xx status) and never with the 200 answer that carries a domain
\* result; a request served by an available store is answered 200, its domain
\* failures included.
StoreFaultIsAnError ==
    callers[1].pc = "done" =>
        IF callers[1].store_available
        THEN callers[1].http.status_code = 200
        ELSE callers[1].http.status_code \in {500, 503}


(***************************************************************************)
(* acquire_pool_or_anonymous_token (pool_auth.py): the request handlers'   *)
(* way to a token. Every task calls it; the pool path is                   *)
(* acquire_pool_access_token as above, the anonymous path is               *)
(* auth.acquire_anonymous_access_token.                                    *)
(***************************************************************************)
AnonymousOutcomes == {"token", "raises"}

\* acquire_anonymous_access_token: a token of a temporary account, or an
\* exception when the temporary account cannot be created.
acquire_anonymous_access_token(outcome) ==
    IF outcome = "token"
    THEN [raised |-> FALSE, token |-> Token(NULL, "anonymous")]
    ELSE [raised |-> TRUE, token |-> NoToken]

\* What a call of acquire_pool_or_anonymous_token came to.
Returned(use_pool, pool_result, anonymous_invoked, anonymous_outcome, raised, token) ==
    [pc |-> "returned", use_pool |-> use_pool, pool_result |-> pool_result,
     anonymous_invoked |-> anonymous_invoked, anonymous_outcome |-> anonymous_outcome,
     raised |-> raised, token |-> token]

NotCalled(use_pool) == Returned(use_pool, NoResult, FALSE, "none", FALSE, NoToken)

\* Variant: the pool's exception let through to the caller.
acquire_pool_or_anonymous_token_propagates(use_pool, pool_result, outcome) ==
    IF use_pool /\ pool_result.status \in {"ok", "cached"}
    THEN Returned(use_pool, pool_result, FALSE, "none", FALSE, pool_result.token)
    ELSE IF use_pool
         THEN Returned(use_pool, pool_result, FALSE, "none", TRUE, NoToken)
         ELSE LET a == acquire_anonymous_access_token(outcome)
              IN Returned(use_pool, pool_result, TRUE, outcome, a.raised, a.token)

\* acquire_pool_or_anonymous_token once the pool path has returned or raised
\* (or was skipped, USE_POOL_SERVICE being false): the pool's token is
\* returned; any exception of the pool path is logged and the anonymous path
\* is taken, whose token or exception is the caller's.
acquire_pool_or_anonymous_token(use_pool, pool_result, outcome) ==
    IF use_pool /\ pool_result.status \in {"ok", "cached"}
    THEN Returned(use_pool, pool_result, FALSE, "none", FALSE, pool_result.token)
    ELSE LET a == acquire_anonymous_access_token(outcome)
         IN Returned(use_pool, pool_result, TRUE, outcome, a.raised, a.token)

\* Any table of available and missing accounts; USE_POOL_SERVICE is read once,
\* at module load.
PoolOrAnonymousInit ==
    /\ accounts \in [Emails -> {AvailableRow, AbsentRow}]
    /\ now = 0
    /\ accounts_per_request \in Counts
    /\ last = Last("none", NULL, NULL, NULL, Response(FALSE, NULL, <<>>, 0))
    /\ \E USE_POOL_SERVICE \in BOOLEAN :
          callers = [t \in Tasks |-> NotCalled(USE_POOL_SERVICE)]
    /\ BrokerInit
    /\ ReplenishIdle

\* Lines 368-372: the pool path is entered.
PoolPathStarts(t) ==
    /\ callers[t].use_pool
    /\ StartAcquire(t)

\* Lines 372-378 with the pool path finished: return its token, or fall back.
PoolPathEnds(t, outcome) ==
    /\ blocked = NULL
    /\ task[t].pc = "done"
    /\ task[t].op = "acquire"
    /\ callers' = [callers EXCEPT ![t] =
                      acquire_pool_or_anonymous_token(callers[t].use_pool,
                                                      task[t].result, outcome)]
    /\ task' = [task EXCEPT ![t] = IdleTask]
    /\ UNCHANGED <<accounts, current_session, manager, lock_holder, blocked, clock,
                   token_expired>>
    /\ UNCHANGED <<now, accounts_per_request, last, calls, attempts, pass>>

\* Lines 368 and 377-378 with USE_POOL_SERVICE false: the anonymous path only.
AnonymousPathOnly(t, outcome) ==
    /\ ~callers[t].use_pool
    /\ task[t].pc = "idle"
    /\ calls < MaxCalls
    /\ calls' = calls + 1
    /\ callers' = [callers EXCEPT ![t] =
                      acquire_pool_or_anonymous_token(FALSE, NoResult, outcome)]
    /\ UNCHANGED <<accounts, current_session, manager, lock_holder, blocked, task,
                   clock, token_expired>>
    /\ UNCHANGED <<now, accounts_per_request, last, attempts, pass>>

PoolOrAnonymousNext ==
    \/ \E t \in Tasks : PoolPathStarts(t)
    \/ \E t \in Tasks : AcquireAllocated(t)
    \/ \E t \in Tasks : \E outcome \in RefreshOutcomes : AcquireTokenDerived(t, outcome)
    \/ \E t \in Tasks : \E outcome \in AnonymousOutcomes : PoolPathEnds(t, outcome)
    \/ \E t \in Tasks : \E outcome \in AnonymousOutcomes : AnonymousPathOnly(t, outcome)
    \/ \E t \in Tasks : ServeRequest(t)
    \/ \E t \in Tasks : FailRequest(t)
    \/ TokenExpires

SpecPoolOrAnonymous == PoolOrAnonymousInit /\ [][PoolOrAnonymousNext]_vars

\* C29: with the pool service enabled, a call whose pool acquisition succeeded
\* returns the pool's token and never enters the anonymous path; a call whose
\* pool acquisition failed, for whatever reason, does not pass the pool's
\* error on: it enters the anonymous path and ends as that path ends.
PoolPreferredWithFallback ==
    \A t \in Tasks :
        (callers[t].pool_result.status # "none" /\ callers[t].use_pool) =>
            IF callers[t].pool_result.status \in {"ok", "cached"}
            THEN /\ ~callers[t].anonymous_invoked
                 /\ ~callers[t].raised
                 /\ callers[t].token = callers[t].pool_result.token
                 /\ callers[t].token.kind \in {"access", "id"}
            ELSE /\ callers[t].pool_result.status = "error"
                 /\ callers[t].anonymous_invoked
                 /\ callers[t].raised = (callers[t].anonymous_outcome = "raises")
                 /\ ~callers[t].raised => callers[t].token = Token(NULL, "anonymous")

\* One call came back with the pool's token, another one, whose pool
\* acquisition failed, with an anonymous token.
PoolPreferredWithFallbackWitness ==
    \E t, u \in Tasks :
        /\ callers[t].use_pool
        /\ callers[t].pool_result.status = "ok"
        /\ ~callers[t].anonymous_invoked
        /\ callers[u].pool_result.status = "error"
        /\ callers[u].anonymous_invoked
        /\ callers[u].token = Token(NULL, "anonymous")


\* C30: a run of the release-all tool turns every in_use row into an available
\* row bound to no session, leaves every other row and the number of rows as
\* they were, reports the number of rows that were in_use before the run, and
\* leaves no row in_use.
ReleaseAllResetsExactlyInUse ==
    [][last'.req.op = "release_all" =>
          /\ \A e \in Emails :
                IF accounts[e].status = "in_use"
                THEN /\ accounts'[e].status = "available"
                     /\ accounts'[e].session_id = NULL
                     /\ accounts'[e].quota_exhausted_at = accounts[e].quota_exhausted_at
                ELSE accounts'[e] = accounts[e]
          /\ pool_stats(accounts').total = pool_stats(accounts).total
          /\ last'.resp.n = pool_stats(accounts).in_use
          /\ pool_stats(accounts').in_use = 0]_vars

\* The tool has just released a leased account, next to an exhausted one that
\* it left alone.
ReleaseAllResetsExactlyInUseWitness ==
    /\ last.req.op = "release_all"
    /\ last.resp.n >= 1
    /\ WithStatus(accounts, "quota_exhausted") # {}
    /\ WithStatus(accounts, "in_use") = {}


\* C31: a mark of a credential that is already quota_exhausted changes
\* nothing: the row keeps the quota_exhausted_at of its first exhaustion, so
\* the time from which the reclaim selects it is not moved.
MarkOfExhaustedIsNoOp ==
    [][(/\ last'.req.op = "mark"
        /\ accounts[last'.req.email].status = "quota_exhausted") =>
          /\ accounts'[last'.req.email].quota_exhausted_at
                 = accounts[last'.req.email].quota_exhausted_at
          /\ accounts' = accounts]_vars


(***************************************************************************)
(* The leases of a client that never calls release_current_session and     *)
(* whose requests, when they fail, fail before the service has handled     *)
(* them: every session bound in the table was handed to the client.        *)
(***************************************************************************)
\* The request is refused or lost on its way to the service.
RequestFails(t) ==
    /\ task[t].http = "sent"
    /\ FailRequest(t)

LeaseNext ==
    \/ \E t \in Tasks : StartAcquire(t)
    \/ \E t \in Tasks : AcquireAllocated(t)
    \/ \E t \in Tasks : \E outcome \in RefreshOutcomes : AcquireTokenDerived(t, outcome)
    \/ \E t \in Tasks : StartMark(t)
    \/ \E t \in Tasks : MarkAnswered(t)
    \/ \E t \in Tasks : \E outcome \in RefreshOutcomes : SwitchTokenDerived(t, outcome)
    \/ \E t \in Tasks : Finish(t)
    \/ \E t \in Tasks : ServeRequest(t)
    \/ \E t \in Tasks : RequestFails(t)
    \/ \E d \in TickSeconds : BrokerTick(d)
    \/ TokenExpires

SpecLeases == BrokerPoolInit /\ [][LeaseNext]_vars

\* The session is in the hands of an acquire call that has not returned yet.
BeingAcquired(s) ==
    \E t \in Tasks :
        /\ task[t].op = "acquire"
        /\ task[t].pc \in {"allocate_wait", "token_wait"}
        /\ task[t].http # "sent" \/ task[t].pc = "token_wait"
        /\ task[t].response.session_id = s

\* C32: no lease is orphaned. No release being called here, every session
\* that still has a credential bound to it at the pool (one that was neither
\* released nor marked exhausted) is the client's cached lease, or is held by
\* an acquire call that is still running.
NoOrphanedLease ==
    \A s \in SessionIds :
        BoundTo(accounts, s) # {} =>
            \/ current_session.present /\ current_session.session_id = s
            \/ BeingAcquired(s)


(***************************************************************************)
(* The cached lease (_current_session) under every interleaving of the     *)
(* client's calls (SpecBroker).                                            *)
(***************************************************************************)
\* C34, the state part: whenever a lease is cached, its index is within the
\* leased accounts, its active account is the account at that index, and its
\* access token was derived from the active account.
CachedLeaseConsistent ==
    current_session.present =>
        /\ 0 <= current_session.account_index
        /\ current_session.account_index < Len(current_session.accounts)
        /\ current_session.account =
               current_session.accounts[current_session.account_index + 1]
        /\ current_session.access_token.email = current_session.account

\* C34: the cached lease is consistent in every state, and the index of one
\* lease never decreases.
CachedLeaseIndexed ==
    /\ []CachedLeaseConsistent
    /\ [][(/\ current_session.present
           /\ current_session'.present
           /\ current_session'.session_id = current_session.session_id) =>
             current_session'.account_index >= current_session.account_index]_vars


\* C35: an acquire call that fails (the allocate request fails or is refused,
\* answers success = false or no account, or the token derivation raises)
\* leaves the client as it was before the call. Stated for the first call of
\* a client: nothing else has run, so the state before the call is the one of
\* module load.
FailedAcquireChangesNothing ==
    \A t \in Tasks :
        (/\ calls = 1
         /\ task[t].op = "acquire"
         /\ task[t].pc = "done"
         /\ task[t].result.status = "error") =>
            /\ current_session = NoSession
            /\ manager = NewManager


(***************************************************************************)
(* Two quota-exhausted signals for the active account of one lease: the    *)
(* client holds a cached lease, and its request handlers call              *)
(* mark_current_account_quota_exhausted, possibly at the same time.        *)
(* Nothing else runs.                                                      *)
(***************************************************************************)
\* The leases a client can hold: the first accounts of the table, in order.
Leases == {SetToSeq(1..n) : n \in 1..MaxAccounts}

\* The state a successful acquire of `lease` as session `sid` leaves behind.
LeasedInit(lease, sid) ==
    /\ accounts = [e \in Emails |->
                      IF e \in Range(lease)
                      THEN [status |-> "in_use", session_id |-> sid,
                            quota_exhausted_at |-> NULL]
                      ELSE AvailableRow]
    /\ current_session = [present |-> TRUE, session_id |-> sid, accounts |-> lease,
                          account |-> lease[1], account_index |-> 0,
                          access_token |-> Token(lease[1], "access"),
                          created_at |-> 0]
    /\ manager = [current_session_id |-> sid, current_account |-> lease[1],
                  accounts |-> lease, account_index |-> 0,
                  access_token |-> Token(lease[1], "access")]

TwoSignalsInit ==
    /\ \E lease \in Leases : \E sid \in SessionIds : LeasedInit(lease, sid)
    /\ now = 0
    /\ accounts_per_request \in Counts
    /\ last = Last("none", NULL, NULL, NULL, Response(FALSE, NULL, <<>>, 0))
    /\ callers = <<>>
    /\ lock_holder = NULL
    /\ blocked = NULL
    /\ task = [t \in Tasks |-> IdleTask]
    /\ clock = 0
    /\ token_expired = FALSE
    /\ calls = 0
    /\ ReplenishIdle

TwoSignalsNext ==
    \/ \E t \in Tasks : StartMark(t)
    \/ \E t \in Tasks : MarkAnswered(t)
    \/ \E t \in Tasks : \E outcome \in RefreshOutcomes : SwitchTokenDerived(t, outcome)
    \/ \E t \in Tasks : Finish(t)
    \/ \E t \in Tasks : ServeRequest(t)
    \/ \E t \in Tasks : FailRequest(t)

SpecTwoSignals == TwoSignalsInit /\ [][TwoSignalsNext]_vars

\* C33: whenever the lease moves on from its active account (to the next
\* account, or to no account when the session is cleared), the account left
\* behind has been marked quota_exhausted at the pool; and a step moves the
\* index by one at most.
NoCredentialSkipped ==
    [][(/\ current_session.present
        /\ \/ ~current_session'.present
           \/ current_session'.account_index # current_session.account_index) =>
          /\ accounts[current_session.account].status = "quota_exhausted"
          /\ current_session'.present =>
                 current_session'.account_index = current_session.account_index + 1]_vars


\* The rows a step has moved to available from another status.
MovedToAvailable ==
    {e \in Emails : accounts[e].status # "available" /\ accounts'[e].status = "available"}

\* C36: a reclaim run changes only rows that are quota_exhausted with the
\* cool-down elapsed; every available or in_use row and every exhausted row
\* still inside its cool-down is as it was; a reclaimed row is available and
\* bound to no session; the count returned is the number of rows moved to
\* available, and a run that meets a store error returns 0 and changes nothing.
ReclaimChangesOnlyExpired ==
    [][last'.req.op \in {"reset", "reset_failed"} =>
          /\ \A e \in Emails :
                accounts'[e] # accounts[e] =>
                    /\ accounts[e].status = "quota_exhausted"
                    /\ now - accounts[e].quota_exhausted_at >= quota_reset_days
                    /\ accounts'[e].status = "available"
                    /\ accounts'[e].session_id = NULL
                    /\ accounts[e].session_id = NULL
          /\ last'.resp.n = Cardinality(MovedToAvailable)
          /\ last'.req.op = "reset_failed" =>
                 (last'.resp.n = 0 /\ accounts' = accounts)]_vars

\* A reclaim run has reset one credential while the other one is leased.
ReclaimChangesOnlyExpiredWitness ==
    /\ last.req.op = "reset"
    /\ last.resp.n = 1
    /\ WithStatus(accounts, "in_use") # {}
    /\ WithStatus(accounts, "available") # {}


(***************************************************************************)
(* ProxyRegistration._make_firebase_request (proxy_register.py): one       *)
(* provisioning request with its retry loop. A step is the POST of one     *)
(* attempt (which answers within its timeout or raises) or one sleep.      *)
(***************************************************************************)
RetryCounts == 1..MaxRetries

\* What session.post comes to: a response with a status code, or an exception.
Posted(raised, status_code) == [raised |-> raised, status_code |-> status_code]
PostOutcomes == {Posted(FALSE, c) : c \in {200, 400, 500}} \cup {Posted(TRUE, NULL)}

Min(a, b) == IF a <= b THEN a ELSE b

\* Variant: only a 200 response is returned.
is_valid_response_only_200(status_code) == status_code = 200

\* `if response.status_code in [200, 400]`
is_valid_response(status_code) == status_code \in {200, 400}

\* `wait_time = min(2 ** attempt, 10)`
wait_time(attempt) == Min(2 ^ attempt, 10)

\* The call, about to make its first attempt.
FirebaseRequest(max_retries_arg) ==
    [pc |-> "post", max_retries |-> max_retries_arg, attempt |-> 0,
     outcomes |-> <<>>, waits |-> <<>>, result |-> NULL]

FirebaseInit ==
    /\ PoolInit
    /\ \E n \in RetryCounts : callers = <<FirebaseRequest(n)>>
    /\ BrokerInit
    /\ ReplenishIdle

FirebaseFrame ==
    /\ UNCHANGED <<accounts, now, accounts_per_request, last>>
    /\ UNCHANGED brokerVars
    /\ UNCHANGED replenishVars

\* One pass of the loop body up to the sleep: a valid response is returned; an
\* exception in the last attempt is re-raised; after the last attempt the loop
\* ends and the final `raise` is reached; otherwise the wait follows.
FirebasePost(outcome) ==
    LET c == callers[1]
        made == [c EXCEPT !.outcomes = Append(@, outcome)]
    IN /\ c.pc = "post"
       /\ callers' =
             <<IF ~outcome.raised /\ is_valid_response(outcome.status_code)
               THEN [made EXCEPT !.pc = "returned", !.result = outcome.status_code]
               ELSE IF c.attempt = c.max_retries - 1
                    THEN [made EXCEPT !.pc = "raised"]
                    ELSE [made EXCEPT !.pc = "sleep"]>>
       /\ FirebaseFrame

\* time.sleep(wait_time), then the next attempt.
FirebaseSleep ==
    LET c == callers[1]
    IN /\ c.pc = "sleep"
       /\ callers' = <<[c EXCEPT !.pc = "post",
                                 !.waits = Append(@, wait_time(c.attempt)),
                                 !.attempt = @ + 1]>>
       /\ FirebaseFrame

FirebaseNext ==
    \/ \E outcome \in PostOutcomes : FirebasePost(outcome)
    \/ FirebaseSleep

SpecFirebaseRequest == FirebaseInit /\ [][FirebaseNext]_vars

\* Every POST answers or raises within its timeout, and every sleep ends.
SpecFirebaseRequestFair == SpecFirebaseRequest /\ WF_vars(FirebaseNext)

\* The attempts made so far, their waits, and how the call ended.
BoundedRetry ==
    LET c == callers[1]
        n == Len(c.outcomes)
        AttemptFailed(i) == c.outcomes[i].raised \/ c.outcomes[i].status_code \notin {200, 400}
    IN /\ n <= c.max_retries
       /\ Len(c.waits) <= n
       /\ Len(c.waits) >= n - 1
       /\ \A i \in 1..Len(c.waits) : c.waits[i] = Min(2 ^ (i - 1), 10)
       /\ \A i \in 1..(n - 1) : AttemptFailed(i)
       /\ c.pc = "returned" => (~AttemptFailed(n) /\ c.result = c.outcomes[n].status_code)
       /\ c.pc = "raised" => (n = c.max_retries /\ AttemptFailed(n))
       /\ (n >= 1 /\ ~AttemptFailed(n)) => c.pc = "returned"

\* C37: a provisioning request makes at most max_retries attempts, waits
\* min(2^attempt, 10) seconds between consecutive attempts, returns the first
\* response whose status is 200 or 400, raises after the last attempt has
\* failed, and always comes to an end.
FirebaseRequestBoundedRetry ==
    /\ []BoundedRetry
    /\ <>(callers[1].pc \in {"returned", "raised"})

\* A call with more than five attempts allowed has returned a 400 response
\* after five failed attempts, the last wait being the capped one.
FirebaseRequestBoundedRetryWitness ==
    /\ callers[1].pc = "returned"
    /\ callers[1].result = 400
    /\ Len(callers[1].outcomes) = 6
    /\ callers[1].waits = <<1, 2, 4, 8, 10>>


(***************************************************************************)
(* One registration attempt, step by step: ProxyRegistration               *)
(* .register_account (proxy_register.py), and the attempt of a pass,       *)
(* BatchRegister._register_single_account (batch_register.py), which runs  *)
(* CompleteScriptRegistration.run_complete_registration and names the      *)
(* failing step from the result it gets back.                              *)
(***************************************************************************)
\* The steps, in the order of register_account.
Steps == <<"create_mailbox", "send_signin_link", "wait_for_mail", "extract_code",
           "complete_signin">>

\* A step returns its value, returns None / success False, or catches an
\* exception of its own and returns None / success False.
StepOutcomes == {"ok", "fails", "raises_inside"}

RegistrationPaths == {"register_account", "_register_single_account"}

\* The fields of the result of run_complete_registration that
\* _register_single_account looks at: which of them are set and successful.
RegistrationResult(email_info, signin_result, email_result, final_tokens) ==
    [email_info |-> email_info, signin_result |-> signin_result,
     email_result |-> email_result, final_tokens |-> final_tokens]

\* run_complete_registration stopped at step `failing` (0: no step failed).
\* The result holds what the steps before it produced; a mail that was
\* received and gave no code is either kept as email_result or not.
run_complete_registration(failing, keeps_mail) ==
    RegistrationResult(failing = 0 \/ failing > 1,
                       failing = 0 \/ failing > 2,
                       failing = 0 \/ failing > 4 \/ (failing = 4 /\ keeps_mail),
                       failing = 0)

\* The error of the failure result of register_account: the step it names.
register_account_error(failing) == Steps[failing]

\* _register_single_account, lines 446-456: the step named in the failure
\* result, or the registrar's own error text when no field is missing.
step_named_by_batch(result) ==
    IF ~result.email_info THEN "create_mailbox"
    ELSE IF ~result.signin_result THEN "send_signin_link"
    ELSE IF ~result.email_result THEN "wait_for_mail"
    ELSE IF ~result.final_tokens THEN "complete_signin"
    ELSE "registrar_error"

\* An attempt that has not run a step yet.
NewRegistration(path, keeps_mail) ==
    [path |-> path, keeps_mail |-> keeps_mail, pc |-> "running", step |-> 1,
     executed |-> <<>>, outcomes |-> <<>>, failing |-> 0,
     success |-> FALSE, error |-> "none"]

RegistrationInit ==
    /\ PoolInit
    /\ \E path \in RegistrationPaths : \E keeps_mail \in BOOLEAN :
          callers = [i \in 1..2 |-> NewRegistration(path, keeps_mail)]
    /\ BrokerInit
    /\ ReplenishIdle

RegistrationFrame ==
    /\ UNCHANGED <<accounts, now, accounts_per_request, last>>
    /\ UNCHANGED brokerVars
    /\ UNCHANGED replenishVars

\* How the attempt ends when step `failing` has failed (0: none has).
RegistrationEnds(c, failing) ==
    IF failing = 0
    THEN [c EXCEPT !.pc = "done", !.success = TRUE]
    ELSE [c EXCEPT !.pc = "done", !.failing = failing,
                   !.error = IF c.path = "register_account"
                             THEN register_account_error(failing)
                             ELSE step_named_by_batch(
                                      run_complete_registration(failing, c.keeps_mail))]

\* The next step of attempt i runs and comes to `outcome`.
RunStep(i, outcome) ==
    LET c == callers[i]
        ran == [c EXCEPT !.executed = Append(@, Steps[c.step]),
                         !.outcomes = Append(@, outcome)]
    IN /\ i \in DOMAIN callers
       /\ c.pc = "running"
       /\ callers' = [callers EXCEPT ![i] =
                         IF outcome # "ok"
                         THEN RegistrationEnds(ran, c.step)
                         ELSE IF c.step = Len(Steps)
                              THEN RegistrationEnds(ran, 0)
                              ELSE [ran EXCEPT !.step = @ + 1]]
       /\ RegistrationFrame

RegistrationNext ==
    \E i \in 1..2 : \E outcome \in StepOutcomes : RunStep(i, outcome)

SpecRegistration == RegistrationInit /\ [][RegistrationNext]_vars

\* The steps of the attempt ran in the fixed order, each once, up to and
\* including the first one that failed; the failure result names that step.
StepsInOrder(c) ==
    /\ c.executed = SubSeq(Steps, 1, Len(c.executed))
    /\ \A k \in 1..(Len(c.outcomes) - 1) : c.outcomes[k] = "ok"
    /\ (c.pc = "done" /\ ~c.success) =>
          /\ c.outcomes[Len(c.outcomes)] # "ok"
          /\ c.error = c.executed[Len(c.executed)]
    /\ (c.pc = "done" /\ c.success) =>
          (c.executed = Steps /\ \A k \in 1..Len(c.outcomes) : c.outcomes[k] = "ok")

\* C38: every registration attempt runs create mailbox, send sign-in link,
\* wait for the mail, extract the code, complete sign-in in that order; the
\* first failing step ends it with a failure result naming that step, no later
\* step runs and no step is run again.
RegistrationStopsAtFirstFailure ==
    \A i \in DOMAIN callers : StepsInOrder(callers[i])


(***************************************************************************)
(* CloudflareDNSResolver: the list of preferred IPs and get_random_endpoint,*)
(* in its two copies (proxy_register.py and cloudflare_dns_resolver.py).   *)
(* An address is a small number; a list is the set of its addresses.       *)
(***************************************************************************)
CF_HTTPS_PORTS == {443, 2053, 2083, 2087, 2096, 8443}
CF_HTTP_PORTS == {80, 8080, 8880, 2052, 2082, 2086, 2095}

\* The addresses the API can list and the ones the CIDR ranges hold.
ApiIps == {1, 2}
CidrIps == {3, 4}

ResolverModules == {"proxy_register", "cloudflare_dns_resolver"}

\* What requests.get(api_url) comes to: an exception, a status other than
\* 200, or 200 with a list of addresses (possibly empty).
FetchOutcomes ==
    {[kind |-> "exception", ips |-> {}], [kind |-> "non_200", ips |-> {}]}
    \cup {[kind |-> "list", ips |-> S] : S \in SUBSET ApiIps}

FetchFailed(fetch) == fetch.kind \in {"exception", "non_200"} \/ fetch.ips = {}

NoEndpoint == [kind |-> "none", ip |-> NULL, port |-> NULL]

\* The resolver object: its module, the two list attributes, whether the
\* attribute cidr_ranges exists, the last fetch and the last answer of
\* get_random_endpoint.
Resolver(module, has_cidr_ranges) ==
    [module |-> module, pc |-> "new", cf_ips |-> {}, proxy_ips |-> {},
     has_cidr_ranges |-> has_cidr_ranges, fetch |-> [kind |-> "none", ips |-> {}],
     endpoint |-> NoEndpoint]

\* _generate_ips_from_cidr. proxy_register.py: iterates self.cidr_ranges (an
\* AttributeError when the attribute does not exist, caught: nothing is
\* assigned) and assigns self.proxy_ips. cloudflare_dns_resolver.py: samples
\* the module's CLOUDFLARE_IP_RANGES and assigns self.cf_ips.
generate_ips_from_cidr(r, sample) ==
    IF r.module = "proxy_register"
    THEN IF r.has_cidr_ranges THEN [r EXCEPT !.proxy_ips = sample] ELSE r
    ELSE [r EXCEPT !.cf_ips = sample]

\* _fetch_ips_from_api. proxy_register.py: a 200 answer replaces cf_ips, and
\* an exception, another status or an empty list go to the CIDR generator.
\* cloudflare_dns_resolver.py: a 200 answer replaces cf_ips (empty or not),
\* another status returns False, and an exception goes to the CIDR generator
\* when cf_ips is empty.
fetch_ips_from_api(r, fetch, sample) ==
    LET f == [r EXCEPT !.fetch = fetch]
    IN IF r.module = "proxy_register"
       THEN IF fetch.kind = "list"
            THEN IF fetch.ips = {}
                 THEN generate_ips_from_cidr([f EXCEPT !.cf_ips = {}], sample)
                 ELSE [f EXCEPT !.cf_ips = fetch.ips]
            ELSE generate_ips_from_cidr(f, sample)
       ELSE IF fetch.kind = "list"
            THEN [f EXCEPT !.cf_ips = fetch.ips]
            ELSE IF fetch.kind = "non_200"
                 THEN f
                 ELSE IF r.cf_ips = {} THEN generate_ips_from_cidr(f, sample) ELSE f

CidrSamples == (SUBSET CidrIps) \ {{}}

ResolverInit ==
    /\ PoolInit
    /\ \E module \in ResolverModules : \E has_cidr_ranges \in BOOLEAN :
          callers = <<Resolver(module, has_cidr_ranges /\ module = "proxy_register")>>
    /\ BrokerInit
    /\ ReplenishIdle

ResolverFrame ==
    /\ UNCHANGED <<accounts, now, accounts_per_request, last>>
    /\ UNCHANGED brokerVars
    /\ UNCHANGED replenishVars

\* __init__ with use_api = True: the first _update_ip_list. ProxyPool assigns
\* cidr_ranges (custom_ranges given) only after this __init__ has returned.
ResolverConstructed(fetch, sample) ==
    LET r == fetch_ips_from_api([callers[1] EXCEPT !.has_cidr_ranges = FALSE],
                                fetch, sample)
    IN /\ callers[1].pc = "new"
       /\ callers' = <<[r EXCEPT !.pc = "ready",
                                 !.has_cidr_ranges = callers[1].has_cidr_ranges]>>
       /\ ResolverFrame

\* get_random_endpoint(url): a refresh when the interval has passed, then an
\* exception when cf_ips is empty, or a random address and a random port of
\* the url's scheme.
GetRandomEndpoint(refresh_due, fetch, sample, is_https) ==
    LET r == IF refresh_due
             THEN fetch_ips_from_api(callers[1], fetch, sample)
             ELSE callers[1]
    IN /\ callers[1].pc = "ready"
       /\ IF r.cf_ips = {}
          THEN callers' = <<[r EXCEPT !.endpoint = [kind |-> "raised", ip |-> NULL,
                                                    port |-> NULL]]>>
          ELSE \E ip \in r.cf_ips :
                  \E port \in (IF is_https THEN CF_HTTPS_PORTS ELSE CF_HTTP_PORTS) :
                      callers' = <<[r EXCEPT !.endpoint = [kind |-> "pair", ip |-> ip,
                                                           port |-> port]]>>
       /\ ResolverFrame

ResolverNext ==
    \/ \E fetch \in FetchOutcomes : \E sample \in CidrSamples :
          ResolverConstructed(fetch, sample)
    \/ \E refresh_due \in BOOLEAN : \E fetch \in FetchOutcomes :
          \E sample \in CidrSamples : \E is_https \in BOOLEAN :
              GetRandomEndpoint(refresh_due, fetch, sample, is_https)

SpecResolver == ResolverInit /\ [][ResolverNext]_vars

\* C39: when the last fetch of the list from the API failed (exception,
\* status other than 200, or an empty list), the resolver has fallen back to
\* addresses of the CIDR ranges: the list used by get_random_endpoint is not
\* empty, and get_random_endpoint has answered with a pair, not an exception.
FallsBackToCidr ==
    (callers[1].pc = "ready" /\ FetchFailed(callers[1].fetch)) =>
        /\ callers[1].cf_ips # {}
        /\ callers[1].endpoint.kind # "raised"

=============================================================================
